---- MODULE Spec2Model ----
(***************************************************************************)
(* Model of the programs of the repository: the Master Mind game of day05  *)
(* (mastermind_logic.py, mastermind_ui.py), the publication tracker of     *)
(* day04 (data_processor.py, pubmed_client.py, app.py) and the unit        *)
(* converter of day03 (converter.py, converter_cli.py).  Each              *)
(* specification below runs one of them and leaves the variables of the    *)
(* others at rest.                                                         *)
(*                                                                         *)
(* A character is a one-character string ("0", "a", " "), except the       *)
(* non-ASCII character U+00B2, written "SUPERSCRIPT TWO".  A Python str is *)
(* a sequence of characters.                                               *)
(***************************************************************************)
EXTENDS Integers, Sequences, FiniteSets, TLC

VARIABLES
    secret,      \* MasterMindGame.secret
    num_digits,  \* MasterMindGame.num_digits
    attempts,    \* MasterMindGame.attempts
    guess,       \* the guess most recently read (play_game) or passed by a caller
    ret,         \* the most recent call on the game and what it returned
    made,        \* how many times make_guess was called on the game
    history,     \* play_game's local list of (guess, feedback)
    pc,          \* where main / play_game stands
    files,       \* DataProcessor.cache_dir: file name -> what the file holds
    dir_exists,  \* whether the directory DataProcessor.cache_dir exists
    now,         \* datetime.now(), in ticks
    cret,        \* the most recent call on the DataProcessor and what it returned
    saved,       \* the gene names passed to save_to_cache since the last clear
    dropped,     \* the names clear_cache dropped, while nothing was saved since
    yearly,      \* the yearly_counts passed to process_yearly_data
    stats,       \* what process_yearly_data returned
    trend,       \* the most recent call of determine_trend_status and its result
    pm_pc,       \* where the call on the PubMedClient stands
    pm_call,     \* the call on the PubMedClient that runs or ran last
    pm_idx,      \* get_yearly_counts: idx of the loop
    pm_counts,   \* get_yearly_counts: the local yearly_counts
    pm_log,      \* the searches and progress callbacks of that call, in order
    pm_ret,      \* what that call returned, once it has
    conv,        \* the most recent call of convert and how it ended
    disk,        \* process_file: the text files by path, each a list of lines
    pf_ret,      \* the call of process_file and how it ended
    gene_data,       \* st.session_state.gene_data
    current_gene,    \* st.session_state.current_gene
    gene_history,    \* st.session_state.gene_history
    selected_genes,  \* st.session_state.selected_genes
    app_log          \* the calls process_gene_search made on the cache and the client

game_vars == <<secret, num_digits, attempts, guess, ret, made, history, pc>>

cache_vars == <<files, dir_exists, now, cret, saved, dropped>>

stats_vars == <<yearly, stats, trend>>

client_vars == <<pm_pc, pm_call, pm_idx, pm_counts, pm_log, pm_ret>>

converter_vars == <<conv, disk, pf_ret>>

app_vars == <<gene_data, current_gene, gene_history, selected_genes, app_log>>

vars == <<game_vars, cache_vars, stats_vars, client_vars, converter_vars, app_vars>>

\* the variables each program leaves alone
not_game == <<cache_vars, stats_vars, client_vars, converter_vars, app_vars>>

not_cache == <<game_vars, stats_vars, client_vars, converter_vars, app_vars>>

not_stats == <<game_vars, cache_vars, client_vars, converter_vars, app_vars>>

not_client == <<game_vars, cache_vars, stats_vars, converter_vars, app_vars>>

not_converter == <<game_vars, cache_vars, stats_vars, client_vars, app_vars>>

not_app == <<game_vars, stats_vars, client_vars, converter_vars>>

\* a program that is not running
NotCalled == [op |-> "none"]

CacheAtRest ==
    /\ files = <<>>
    /\ dir_exists = FALSE
    /\ now = 0
    /\ cret = NotCalled
    /\ saved = {}
    /\ dropped = <<>>

StatsAtRest ==
    /\ yearly = <<>>
    /\ stats = NotCalled
    /\ trend = NotCalled

ClientAtRest ==
    /\ pm_pc = "idle"
    /\ pm_call = NotCalled
    /\ pm_idx = 0
    /\ pm_counts = <<>>
    /\ pm_log = <<>>
    /\ pm_ret = NotCalled

ConverterAtRest ==
    /\ conv = NotCalled
    /\ disk = <<>>
    /\ pf_ret = NotCalled

AppAtRest ==
    /\ gene_data = <<>>
    /\ current_gene = <<>>
    /\ gene_history = <<>>
    /\ selected_genes = <<>>
    /\ app_log = <<>>

(***************************************************************************)
(* Bounds of the model.                                                    *)
(***************************************************************************)
\* The secret's digits are drawn from 0..MaxDigit, a part of range(10).
MaxDigit == 2
\* make_guess is called at most MaxAttempts times on one game.
MaxAttempts == 2
\* The clock of the cache runs from tick 0 to tick MaxNow.
MaxNow == 3
\* A day has TicksPerDay ticks.
TicksPerDay == 2
\* load_from_cache is called with max_age_days from -1 to MaxAgeDays.
MaxAgeDays == 1
\* DataProcessor objects 1..MaxProcessors work on the one cache directory.
MaxProcessors == 2
\* The years passed to save_to_cache and process_yearly_data start at FirstYear.
FirstYear == 2019
\* A year has 0, 1 or BigCount publications.
BigCount == 700
\* Mappings of up to MaxShort years are passed in every insertion order.
MaxShort == 3
\* determine_trend_status is called with -MaxPercent.0 to MaxPercent.0 percent.
MaxPercent == 51
\* get_yearly_counts is called for at most MaxSpan years.
MaxSpan == 3

Min(a, b) == IF a <= b THEN a ELSE b

Range(s) == {s[i] : i \in DOMAIN s}

(***************************************************************************)
(* Characters and Python's str methods.                                    *)
(***************************************************************************)
\* str(d) of a digit d of range(10)
DecimalChars == <<"0", "1", "2", "3", "4", "5", "6", "7", "8", "9">>

str(d) == DecimalChars[d + 1]

\* range(10), cut to the model's bound
Digits == 0 .. MaxDigit

\* str.isdigit(): a non-empty string of characters with the Unicode property
\* Numeric_Type=Digit or Decimal; that holds of the ASCII digits and also of
\* characters such as U+00B2.
IsDigitChar(c) == c \in Range(DecimalChars) \cup {"SUPERSCRIPT TWO"}

isdigit(s) == s # <<>> /\ \A i \in DOMAIN s : IsDigitChar(s[i])

IsSpaceChar(c) == c \in {" ", "\n"}

\* str.strip(): leading and trailing whitespace removed
RECURSIVE lstrip(_)
lstrip(s) == IF s # <<>> /\ IsSpaceChar(Head(s)) THEN lstrip(Tail(s)) ELSE s

RECURSIVE rstrip(_)
rstrip(s) ==
    IF s # <<>> /\ IsSpaceChar(s[Len(s)]) THEN rstrip(SubSeq(s, 1, Len(s) - 1)) ELSE s

strip(s) == rstrip(lstrip(s))

(***************************************************************************)
(* MasterMindGame                                                          *)
(***************************************************************************)
\* _generate_secret_number: "".join(map(str, random.choices(range(10), k)))
generate_secret_number(k) ==
    {[i \in 1 .. k |-> str(ds[i])] : ds \in [1 .. k -> Digits]}

validate_guess(g) == Len(g) = num_digits /\ isdigit(g)

\* zip(a, b): pairs up to the shorter of the two
RECURSIVE zip(_, _)
zip(a, b) ==
    IF a = <<>> \/ b = <<>>
    THEN <<>>
    ELSE <<<<Head(a), Head(b)>>>> \o zip(Tail(a), Tail(b))

\* a loop that starts at the second pair
exact_matches_from_second(pairs) ==
    Cardinality({i \in 2 .. Len(pairs) : pairs[i][1] = pairs[i][2]})

\* the loop of lines 22-24 over the zipped pairs
RECURSIVE exact_matches(_)
exact_matches(pairs) ==
    IF pairs = <<>>
    THEN 0
    ELSE (IF Head(pairs)[1] = Head(pairs)[2] THEN 1 ELSE 0) + exact_matches(Tail(pairs))

\* collections.Counter(s): each character of s with its number of occurrences
Counter(s) == [c \in Range(s) |-> Cardinality({i \in DOMAIN s : s[i] = c})]

\* counter[c]: 0 for a missing key
CounterGet(counter, c) == IF c \in DOMAIN counter THEN counter[c] ELSE 0

\* every occurrence in the guess of a digit the secret holds
digit_matches_uncapped(secret_counter, guess_counter, digit) ==
    IF CounterGet(secret_counter, digit) > 0 THEN CounterGet(guess_counter, digit) ELSE 0

\* one for a digit the secret holds, however often
digit_matches_presence(secret_counter, guess_counter, digit) ==
    IF CounterGet(secret_counter, digit) > 0 THEN 1 ELSE 0

\* one term of the loop of lines 30-31
digit_matches(secret_counter, guess_counter, digit) ==
    Min(CounterGet(secret_counter, digit), CounterGet(guess_counter, digit))

\* the loop of lines 29-31 over the keys of guess_counter
RECURSIVE total_matches(_, _, _)
total_matches(secret_counter, guess_counter, keys) ==
    IF keys = {}
    THEN 0
    ELSE LET digit == CHOOSE d \in keys : TRUE
         IN  digit_matches(secret_counter, guess_counter, digit)
               + total_matches(secret_counter, guess_counter, keys \ {digit})

\* the exact matches counted again among the wrong-position ones
wrong_position_matches_not_reduced(total, exact) == total

wrong_position_matches(total, exact) == total - exact

\* evaluate_guess with self.secret = self_secret: <<exact, wrong position>>
evaluate_guess(self_secret, g) ==
    LET exact == exact_matches(zip(self_secret, g))
        secret_counter == Counter(self_secret)
        guess_counter == Counter(g)
        total == total_matches(secret_counter, guess_counter, DOMAIN guess_counter)
    IN  <<exact, wrong_position_matches(total, exact)>>

is_winner(exact) == exact = num_digits

NoCall == [op |-> "none", arg |-> <<>>, value |-> <<>>]

\* MasterMindGame(): the fields after __init__
NewGame ==
    /\ attempts = 0
    /\ num_digits = 4
    /\ secret \in generate_secret_number(num_digits)

\* game.validate_guess(g), called on the game as it stands
ValidateGuess(g) ==
    /\ guess' = g
    /\ ret' = [op |-> "validate_guess", arg |-> g, value |-> validate_guess(g)]
    /\ UNCHANGED <<secret, num_digits, attempts, made, history, pc>>
    /\ UNCHANGED not_game

\* game.evaluate_guess(g)
EvaluateGuess(g) ==
    /\ guess' = g
    /\ ret' = [op |-> "evaluate_guess", arg |-> g, value |-> evaluate_guess(secret, g)]
    /\ UNCHANGED <<secret, num_digits, attempts, made, history, pc>>
    /\ UNCHANGED not_game

\* what make_guess returns: (exact, wrong_pos, is_winner)
make_guess(self_secret, g) ==
    LET score == evaluate_guess(self_secret, g)
    IN  <<score[1], score[2], is_winner(score[1])>>

\* a make_guess that counts the attempt only when the guess loses
MakeGuessCountingLosses(g) ==
    /\ attempts < MaxAttempts
    /\ guess' = g
    /\ attempts' = IF make_guess(secret, g)[3] THEN attempts ELSE attempts + 1
    /\ made' = made + 1
    /\ ret' = [op |-> "make_guess", arg |-> g, value |-> make_guess(secret, g)]
    /\ UNCHANGED <<secret, num_digits, history, pc>>
    /\ UNCHANGED not_game

\* a make_guess that draws a new secret once the guess is scored
MakeGuessNewSecret(g) ==
    /\ attempts < MaxAttempts
    /\ guess' = g
    /\ attempts' = attempts + 1
    /\ made' = made + 1
    /\ ret' = [op |-> "make_guess", arg |-> g, value |-> make_guess(secret, g)]
    /\ secret' \in generate_secret_number(num_digits)
    /\ UNCHANGED <<num_digits, history, pc>>
    /\ UNCHANGED not_game

\* game.make_guess(g)
MakeGuess(g) ==
    /\ attempts < MaxAttempts
    /\ guess' = g
    /\ attempts' = attempts + 1
    /\ made' = made + 1
    /\ ret' = [op |-> "make_guess", arg |-> g, value |-> make_guess(secret, g)]
    /\ UNCHANGED <<secret, num_digits, history, pc>>
    /\ UNCHANGED not_game

(***************************************************************************)
(* Inputs of the model.                                                    *)
(***************************************************************************)
Replace(s, i, c) == [s EXCEPT ![i] = c]

\* s[::-1]
Reverse(s) == [i \in 1 .. Len(s) |-> s[Len(s) + 1 - i]]

\* strings a player may type or a caller may pass, chosen around the secret s:
\* the secret itself, the secret padded with blanks, the secret reversed, one
\* repeated digit, a non-ASCII digit in a string of the right length, nothing,
\* a blank, too short, too long, a letter, a blank inside
TypedInputs(s) ==
    {s, <<" ">> \o s \o <<" ">>, Reverse(s), Replace(s, 1, "SUPERSCRIPT TWO")}
        \cup {[i \in 1 .. Len(s) |-> str(d)] : d \in Digits}
        \cup {<<>>, <<" ">>, SubSeq(s, 1, Len(s) - 1), s \o <<str(0)>>,
              Replace(s, 1, "a"), Replace(s, 2, " ")}

\* every string of digits of length n
DigitStrings(n) == generate_secret_number(n)

\* arguments of the scorer: strings of digits one shorter than, as long as and
\* one longer than the secret
EvalGuesses ==
    DigitStrings(num_digits - 1) \cup DigitStrings(num_digits)
        \cup DigitStrings(num_digits + 1)

(***************************************************************************)
(* The scorer applied to one secret and one guess.                         *)
(***************************************************************************)
InitEval ==
    /\ NewGame
    /\ guess \in EvalGuesses
    /\ ret = NoCall
    /\ made = 0
    /\ history = <<>>
    /\ pc = "caller"
    /\ CacheAtRest
    /\ StatsAtRest
    /\ ClientAtRest
    /\ ConverterAtRest
    /\ AppAtRest

NextEval == EvaluateGuess(guess)

SpecEval == InitEval /\ [][NextEval]_vars

(***************************************************************************)
(* A game object under direct calls, as the tests use it.                  *)
(***************************************************************************)
InitApi ==
    /\ NewGame
    /\ guess = <<>>
    /\ ret = NoCall
    /\ made = 0
    /\ history = <<>>
    /\ pc = "caller"
    /\ CacheAtRest
    /\ StatsAtRest
    /\ ClientAtRest
    /\ ConverterAtRest
    /\ AppAtRest

CallValidateGuess == \E g \in TypedInputs(secret) : ValidateGuess(g)

CallEvaluateGuess == \E g \in TypedInputs(secret) : EvaluateGuess(g)

CallMakeGuess == \E g \in TypedInputs(secret) : MakeGuess(g)

NextApi == CallValidateGuess \/ CallEvaluateGuess \/ CallMakeGuess

SpecApi == InitApi /\ [][NextApi]_vars

(***************************************************************************)
(* mastermind_ui.py: main and play_game.                                   *)
(***************************************************************************)
\* symbol * n: a string of n copies of the symbol
Repeat(symbol, n) == [i \in 1 .. n |-> symbol]

\* a create_feedback that shows the digits in the wrong position first
create_feedback_wrong_pos_first(exact, wrong_pos) ==
    LET feedback == Repeat("~", wrong_pos) \o Repeat("+", exact)
    IN  IF feedback # <<>> THEN feedback ELSE <<"-">>

\* create_feedback(exact, wrong_pos)
create_feedback(exact, wrong_pos) ==
    LET feedback == Repeat("+", exact) \o Repeat("~", wrong_pos)
    IN  IF feedback # <<>> THEN feedback ELSE <<"-">>

\* a loop that counts the attempt before it validates the input
RejectInputCounted(raw) ==
    /\ pc = "input"
    /\ attempts < MaxAttempts
    /\ guess' = strip(raw)
    /\ ~validate_guess(guess')
    /\ attempts' = attempts + 1
    /\ UNCHANGED <<secret, num_digits, ret, made, history, pc>>
    /\ UNCHANGED not_game

\* one pass of play_game's loop on an input that validate_guess rejects
RejectInput(raw) ==
    /\ pc = "input"
    /\ guess' = strip(raw)
    /\ ~validate_guess(guess')
    /\ UNCHANGED <<secret, num_digits, attempts, ret, made, history, pc>>
    /\ UNCHANGED not_game

\* a loop that also ends the game when the attempts run out
AcceptInputWithLimit(raw) ==
    /\ pc = "input"
    /\ attempts < MaxAttempts
    /\ guess' = strip(raw)
    /\ validate_guess(guess')
    /\ attempts' = attempts + 1
    /\ made' = made + 1
    /\ ret' = [op |-> "make_guess", arg |-> guess', value |-> make_guess(secret, guess')]
    /\ history' = Append(history, <<guess', create_feedback(ret'.value[1], ret'.value[2])>>)
    /\ pc' = IF ret'.value[3] \/ attempts' >= MaxAttempts THEN "play_again" ELSE "input"
    /\ UNCHANGED <<secret, num_digits>>
    /\ UNCHANGED not_game

\* one pass of play_game's loop on an input that validate_guess accepts
AcceptInput(raw) ==
    /\ pc = "input"
    /\ attempts < MaxAttempts
    /\ guess' = strip(raw)
    /\ validate_guess(guess')
    /\ attempts' = attempts + 1
    /\ made' = made + 1
    /\ ret' = [op |-> "make_guess", arg |-> guess', value |-> make_guess(secret, guess')]
    /\ history' = Append(history, <<guess', create_feedback(ret'.value[1], ret'.value[2])>>)
    /\ pc' = IF ret'.value[3] THEN "play_again" ELSE "input"
    /\ UNCHANGED <<secret, num_digits>>
    /\ UNCHANGED not_game

ReadInvalid == \E raw \in TypedInputs(secret) : RejectInput(raw)

ReadValid == \E raw \in TypedInputs(secret) : AcceptInput(raw)

\* main: the player answers y or yes, and play_game starts again with a new
\* game and new locals
PlayAgain ==
    /\ pc = "play_again"
    /\ attempts' = 0
    /\ num_digits' = 4
    /\ secret' \in generate_secret_number(num_digits')
    /\ guess' = <<>>
    /\ ret' = NoCall
    /\ made' = 0
    /\ history' = <<>>
    /\ pc' = "input"
    /\ UNCHANGED not_game

\* main: any other answer ends the program
Quit ==
    /\ pc = "play_again"
    /\ pc' = "exit"
    /\ UNCHANGED <<secret, num_digits, attempts, guess, ret, made, history>>
    /\ UNCHANGED not_game

Init ==
    /\ NewGame
    /\ guess = <<>>
    /\ ret = NoCall
    /\ made = 0
    /\ history = <<>>
    /\ pc = "input"
    /\ CacheAtRest
    /\ StatsAtRest
    /\ ClientAtRest
    /\ ConverterAtRest
    /\ AppAtRest

Next == ReadInvalid \/ ReadValid \/ PlayAgain \/ Quit

Spec == Init /\ [][Next]_vars

(***************************************************************************)
(* Properties of the scorer (SpecEval).                                    *)
(***************************************************************************)
\* evaluate_guess has returned for a guess as long as the secret
Scored == ret.op = "evaluate_guess" /\ Len(ret.arg) = Len(secret)

exact == ret.value[1]

partial == ret.value[2]

\* the number of positions of s that hold c
RECURSIVE Occ(_, _)
Occ(s, c) == IF s = <<>> THEN 0 ELSE (IF Head(s) = c THEN 1 ELSE 0) + Occ(Tail(s), c)

\* C1: for a secret and a guess of the same length N over the digits,
\* evaluate_guess returns (exact, partial) with 0 <= exact <= N, partial >= 0
\* and exact + partial <= N.
C1_ScoreWithinLength ==
    Scored =>
        /\ exact \in 0 .. Len(secret)
        /\ partial \in Nat
        /\ exact + partial <= Len(secret)

\* a score with both exact and wrong-position matches
C1_Witness == Scored /\ exact > 0 /\ partial > 0

\* s without its first c
RECURSIVE RemoveFirst(_, _)
RemoveFirst(s, c) ==
    IF s = <<>> THEN <<>>
    ELSE IF Head(s) = c THEN Tail(s)
    ELSE <<Head(s)>> \o RemoveFirst(Tail(s), c)

\* the symbols of a at the positions where a and b differ, in order
RECURSIVE Unmatched(_, _)
Unmatched(a, b) ==
    IF a = <<>> THEN <<>>
    ELSE (IF Head(a) = Head(b) THEN <<>> ELSE <<Head(a)>>) \o Unmatched(Tail(a), Tail(b))

\* the size of the multiset intersection of rs and rg: each symbol of rg takes
\* one equal symbol out of rs, if there is one left
RECURSIVE Overlap(_, _)
Overlap(rs, rg) ==
    IF rg = <<>> THEN 0
    ELSE IF Occ(rs, Head(rg)) > 0
         THEN 1 + Overlap(RemoveFirst(rs, Head(rg)), Tail(rg))
         ELSE Overlap(rs, Tail(rg))

\* C2: the partial count of evaluate_guess is the remove-then-match score:
\* drop every position where secret and guess agree, then take the size of
\* the multiset intersection of what is left of the secret and of the guess.
C2_PartialIsRemoveThenMatch ==
    Scored => partial = Overlap(Unmatched(secret, ret.arg), Unmatched(ret.arg, secret))

\* a guess that repeats a digit more often than the secret holds it, with an
\* exact and a wrong-position match
C2_Witness ==
    /\ Scored
    /\ exact > 0
    /\ partial > 0
    /\ \E c \in Range(ret.arg) : Occ(ret.arg, c) > Occ(secret, c) /\ Occ(secret, c) > 0

\* C3: for a guess as long as the secret, exact = N exactly when the guess
\* is the secret.
C3_AllExactIffEqual == Scored => (exact = Len(secret) <=> ret.arg = secret)

\* the secret itself was scored
C3_Witness == Scored /\ ret.arg = secret /\ exact = num_digits

\* C8: a guess of one digit c repeated N times scores (number of c in the
\* secret, 0); and the credit of any symbol, the term the scorer adds for it
\* to exact + partial, is at most the smaller of its counts in the secret and
\* in the guess, so that exact + partial is at most the sum of these minima.
C8_DuplicatesAreCapped ==
    Scored =>
        /\ \A c \in Range(ret.arg) :
              ret.arg = Repeat(c, Len(secret)) => ret.value = <<Occ(secret, c), 0>>
        /\ \A c \in Range(secret) \cup Range(ret.arg) :
              digit_matches(Counter(secret), Counter(ret.arg), c)
                  <= Min(Occ(secret, c), Occ(ret.arg, c))
        /\ exact + partial
             <= Cardinality({p \in (Range(secret) \cup Range(ret.arg)) \X (1 .. Len(secret)) :
                               p[2] <= Min(Occ(secret, p[1]), Occ(ret.arg, p[1]))})

\* one digit repeated, which the secret holds twice: the case of 1122 and 1111
C8_Witness ==
    /\ Scored
    /\ \E c \in Range(ret.arg) : ret.arg = Repeat(c, Len(secret)) /\ Occ(secret, c) = 2
    /\ ret.value = <<2, 0>>

\* g holds the symbols of s, each as often as s does
Rearranged(s, g) ==
    /\ Len(s) = Len(g)
    /\ \A c \in Range(s) \cup Range(g) : Occ(s, c) = Occ(g, c)

NoPositionAgrees(s, g) == \A i \in DOMAIN s : s[i] # g[i]

\* C9: a guess that rearranges the secret and agrees with it in no position
\* scores (0, N); a guess that shares no symbol with the secret scores (0, 0).
C9_RearrangedAndDisjoint ==
    Scored =>
        /\ (Rearranged(secret, ret.arg) /\ NoPositionAgrees(secret, ret.arg))
              => ret.value = <<0, Len(secret)>>
        /\ (Range(secret) \cap Range(ret.arg) = {}) => ret.value = <<0, 0>>

\* a rearrangement of a secret with a repeated digit: the case of 1122 and 2211
C9_Witness ==
    /\ Scored
    /\ Rearranged(secret, ret.arg)
    /\ NoPositionAgrees(secret, ret.arg)
    /\ \E c \in Range(secret) : Occ(secret, c) >= 2
    /\ ret.value = <<0, num_digits>>

\* C10: exact + partial of guess G against secret S equals exact + partial
\* of guess S against secret G.
C10_TotalIsSymmetric ==
    Scored =>
        LET swapped == evaluate_guess(ret.arg, secret)
        IN  exact + partial = swapped[1] + swapped[2]

\* secret and guess hold different symbols, the guess one of them more often
C10_Witness ==
    /\ Scored
    /\ ~Rearranged(secret, ret.arg)
    /\ exact + partial > 0
    /\ \E c \in Range(ret.arg) : Occ(ret.arg, c) > Occ(secret, c) /\ Occ(secret, c) > 0

(***************************************************************************)
(* Properties of the game object under direct calls (SpecApi).             *)
(***************************************************************************)
\* C4: validate_guess(guess) is true exactly when guess has num_digits (4)
\* characters, each one of the ten symbols 0-9.
C4_ValidIffFourDecimalDigits ==
    ret.op = "validate_guess" =>
        (ret.value <=>
            /\ Len(ret.arg) = 4
            /\ \A i \in DOMAIN ret.arg : ret.arg[i] \in Range(DecimalChars))

\* C6: every make_guess adds exactly 1 to attempts, on a win as on a loss,
\* and returns won = TRUE exactly when the exact count it returns is
\* num_digits; after k calls of make_guess on a new game, attempts = k.
C6_EachCallCountsOnce ==
    /\ [](attempts = made)
    /\ [](ret.op = "make_guess" => (ret.value[3] <=> ret.value[1] = num_digits))
    /\ [][ret'.op = "make_guess" => attempts' = attempts + 1]_vars

\* the second make_guess on a game wins
C6_Witness ==
    /\ ret.op = "make_guess"
    /\ ret.value[3]
    /\ made = 2
    /\ attempts = 2

\* the call returned a score: two counts, and for make_guess a flag
IsScore(v) == v \in (Nat \X Nat) \cup (Nat \X Nat \X BOOLEAN)

\* C7: evaluate_guess and make_guess, called with a guess whose length is not
\* the secret's, fail with an invalid-length error: they return no score, and
\* no win.
C7_WrongLengthIsRejected ==
    (ret.op \in {"evaluate_guess", "make_guess"} /\ Len(ret.arg) # Len(secret))
        => ~IsScore(ret.value)

(***************************************************************************)
(* Properties of play_game (Spec).                                         *)
(***************************************************************************)
\* C5: in play_game's loop an input that validate_guess rejects is not
\* passed to make_guess, adds nothing to attempts or to the history, and the
\* loop asks again.
C5_InvalidInputIsNotScored ==
    [][(pc = "input" /\ ~validate_guess(guess'))
          => /\ attempts' = attempts
             /\ made' = made
             /\ ret' = ret
             /\ history' = history
             /\ pc' = "input"]_vars

\* an accepted guess, then a rejected input: the attempt number stays 1
C5_Witness ==
    /\ pc = "input"
    /\ ~validate_guess(guess)
    /\ guess # <<>>
    /\ attempts = 1
    /\ Len(history) = 1

(***************************************************************************)
(* More properties of the game.                                            *)
(***************************************************************************)
\* C11: scoring the secret against itself gives (N, 0).
C11_SecretScoresPerfect ==
    (Scored /\ ret.arg = secret) => ret.value = <<Len(secret), 0>>

\* a secret with a repeated digit was scored against itself
C11_Witness ==
    /\ Scored
    /\ ret.arg = secret
    /\ \E c \in Range(secret) : Occ(secret, c) >= 2
    /\ ret.value = <<num_digits, 0>>

\* C12 (SpecApi): won is reported only for exact = N, and once make_guess has
\* returned won = TRUE the next call on the game is no make_guess that is
\* scored and counted: attempts stays and no make_guess result follows.
C12_WonIsTerminal ==
    [][/\ (ret'.op = "make_guess" /\ ret'.value[3]) => ret'.value[1] = num_digits
       /\ (ret.op = "make_guess" /\ ret.value[3])
             => (attempts' = attempts /\ ret'.op # "make_guess")]_vars

\* C13 (Spec): play_game returns exactly on the first validated guess equal
\* to the secret: a pass of the loop leaves the loop if and only if its
\* input, stripped, is valid and is the secret; while the loop runs no guess
\* of the history is the secret, when it has ended only the last one is; and
\* after the return nothing more is read for that game: main either stops or
\* starts a new game.
C13_EndsAtFirstWin ==
    /\ [][pc = "input" =>
             (pc' = "play_again" <=> (validate_guess(guess') /\ guess' = secret))]_vars
    /\ [](pc = "input" => \A i \in DOMAIN history : history[i][1] # secret)
    /\ [](pc \in {"play_again", "exit"} =>
             /\ history # <<>>
             /\ \A i \in DOMAIN history : (history[i][1] = secret <=> i = Len(history)))
    /\ [][pc = "play_again" =>
             \/ pc' = "exit" /\ UNCHANGED <<secret, attempts, history, ret, guess>>
             \/ pc' = "input" /\ attempts' = 0 /\ history' = <<>>]_vars
    /\ [][pc = "exit" => UNCHANGED vars]_vars

\* the game was won at the second attempt, after a guess that lost
C13_Witness ==
    /\ pc = "play_again"
    /\ attempts = 2
    /\ Len(history) = 2
    /\ history[1][1] # secret
    /\ history[2][1] = secret

\* C14 (SpecApi): no call changes secret or num_digits; validate_guess and
\* evaluate_guess change no field of the game and make_guess changes only
\* attempts; every score returned is the score against the one secret.
C14_SecretIsImmutable ==
    /\ [][/\ secret' = secret
          /\ num_digits' = num_digits
          /\ ret'.op \in {"validate_guess", "evaluate_guess"} => attempts' = attempts]_vars
    /\ [](ret.op = "evaluate_guess" => ret.value = evaluate_guess(secret, ret.arg))
    /\ [](ret.op = "make_guess" =>
             <<ret.value[1], ret.value[2]>> = evaluate_guess(secret, ret.arg))

\* evaluate_guess was called after two calls of make_guess
C14_Witness ==
    /\ ret.op = "evaluate_guess"
    /\ attempts = 2
    /\ ret.value = evaluate_guess(secret, ret.arg)

\* the feedback string shows a score: a "+" for every exact match, then a
\* "~" for every digit in the wrong position, and "-" when there is neither
ShowsScore(feedback, score) ==
    IF score[1] = 0 /\ score[2] = 0 THEN feedback = <<"-">>
    ELSE /\ Len(feedback) = score[1] + score[2]
         /\ \A i \in DOMAIN feedback :
                feedback[i] = IF i <= score[1] THEN "+" ELSE "~"

\* s is one of the strings generate_secret_number(k) draws from: k digits
IsSecretNumber(s, k) ==
    /\ Len(s) = k
    /\ \A i \in 1 .. k : s[i] \in {str(d) : d \in Digits}

\* C30 (Spec): in play_game the history has one entry for every attempt of
\* the game; a pass of the loop leaves it as it is when the input is not
\* valid and otherwise appends the guess with the feedback that shows its
\* score against the secret; a new game started from main has attempts 0,
\* an empty history and a secret of its own.
C30_HistoryIsTheAttempts ==
    /\ [](Len(history) = attempts)
    /\ [][pc = "input" =>
             IF validate_guess(guess')
             THEN /\ Len(history') = Len(history) + 1
                  /\ SubSeq(history', 1, Len(history)) = history
                  /\ history'[Len(history')][1] = guess'
                  /\ ShowsScore(history'[Len(history')][2], evaluate_guess(secret, guess'))
             ELSE history' = history]_vars
    /\ [][(pc = "play_again" /\ pc' = "input") =>
             /\ attempts' = 0
             /\ made' = 0
             /\ history' = <<>>
             /\ IsSecretNumber(secret', num_digits')]_vars

\* two attempts in a game: one that matched nothing, then one with two
\* exact matches and two digits in the wrong position
C30_Witness ==
    /\ attempts = 2
    /\ Len(history) = 2
    /\ history[1][2] = <<"-">>
    /\ history[2][2] = <<"+", "+", "~", "~">>

(***************************************************************************)
(* DataProcessor: the cache directory (day04/data_processor.py)            *)
(***************************************************************************)
\* Optional[...]: None, or a value
None == <<>>

Some(x) == <<x>>

\* the characters gene names are made of here, in code point order
CodePoints ==
    <<"!", "-">> \o DecimalChars \o <<"A", "B", "_", "a", "b">>

\* ord(c)
Ord(c) == CHOOSE i \in DOMAIN CodePoints : CodePoints[i] = c

\* str.isalnum() of one character
IsAlnum(c) == c \in Range(DecimalChars) \cup {"A", "B", "a", "b"}

\* str.lower() of one character
LowerChar(c) == IF c = "A" THEN "a" ELSE IF c = "B" THEN "b" ELSE c

\* "".join(c for c in gene if c.isalnum() or c in "-_").lower()
RECURSIVE safe_gene(_)
safe_gene(gene) ==
    IF gene = <<>> THEN <<>>
    ELSE (IF IsAlnum(Head(gene)) \/ Head(gene) \in {"-", "_"}
          THEN <<LowerChar(Head(gene))>> ELSE <<>>) \o safe_gene(Tail(gene))

\* a path of cache_dir with every character kept as it is
get_cache_path_unsanitized(gene) == gene \o <<".json">>

\* _get_cache_path: cache_dir / f"{safe_gene}.json", as the file's name
get_cache_path(gene) == safe_gene(gene) \o <<".json">>

\* Path.stem of a file name that ends in .json
stem(path) == IF Len(path) = 1 THEN path ELSE SubSeq(path, 1, Len(path) - 1)

\* a < b of two str: by code points, a proper prefix first
RECURSIVE StrLess(_, _)
StrLess(a, b) ==
    IF b = <<>> THEN FALSE
    ELSE IF a = <<>> THEN TRUE
    ELSE IF Head(a) # Head(b) THEN Ord(Head(a)) < Ord(Head(b))
    ELSE StrLess(Tail(a), Tail(b))

\* the list with x put before the first element greater than x
RECURSIVE Insert(_, _)
Insert(x, s) ==
    IF s = <<>> THEN <<x>>
    ELSE IF StrLess(x, Head(s)) THEN <<x>> \o s
    ELSE <<Head(s)>> \o Insert(x, Tail(s))

\* the list in the order it has
unsorted(s) == s

\* sorted(s) of a list of str
RECURSIVE sorted(_)
sorted(s) == IF s = <<>> THEN <<>> ELSE Insert(Head(s), sorted(Tail(s)))

\* str(n) of an int n >= 0
RECURSIVE IntToStr(_)
IntToStr(n) ==
    IF n < Len(DecimalChars) THEN <<str(n)>>
    ELSE IntToStr(n \div Len(DecimalChars)) \o <<str(n % Len(DecimalChars))>>

\* datetime.isoformat(): the date and the time of day of tick t
isoformat(t) == <<t \div TicksPerDay, t % TicksPerDay>>

\* datetime.fromisoformat(s), in ticks
fromisoformat(s) == s[1] * TicksPerDay + s[2]

\* "2000-01-01": a date further back than any max_age_days of the model
Date2000 == <<0 - (MaxAgeDays + 1), 0>>

\* timedelta.days: whole days, rounded down
days(delta) == delta \div TicksPerDay

\* dict.get(key, default)
get(data, key, default) == IF key \in DOMAIN data THEN data[key] ELSE default

\* a dict with no key
EmptyDict == [k \in {} |-> {}]

\* {str(year): count for year, count in yearly_counts.items()}
StrKeys(yearly_counts) ==
    [k \in {IntToStr(y) : y \in DOMAIN yearly_counts} |->
        yearly_counts[CHOOSE y \in DOMAIN yearly_counts : IntToStr(y) = k]]

\* a file that json.load parses to data
JsonFile(data) == [parses |-> TRUE, data |-> data]

\* a file that json.load rejects with JSONDecodeError
Unparsable == [parses |-> FALSE, data |-> EmptyDict]

\* the files of cache_dir with file path holding content
WriteFile(fs, path, content) ==
    [p \in DOMAIN fs \cup {path} |-> IF p = path THEN content ELSE fs[p]]

\* a call on DataProcessor object by, at tick at, and what it returned
Call(op, by, arg, value, at) ==
    [op |-> op, by |-> by, arg |-> arg, value |-> value, at |-> at]

Processors == 1 .. MaxProcessors

\* the gene names passed by callers: two that differ in case only, one that
\* sorts between them
GeneNames == {<<"a">>, <<"A">>, <<"B">>}

\* the (yearly_counts, metadata) passed to save_to_cache
SaveArgs ==
    {<<[y \in {FirstYear} |-> 1], None>>,
     <<[y \in FirstYear .. FirstYear + 1 |-> IF y = FirstYear THEN 2 ELSE 0],
       Some([source |-> "PubMed"])>>}

MaxAges == -1 .. MaxAgeDays
\* DataProcessor(cache_dir): cache_dir.mkdir(exist_ok=True), on a fresh
\* directory; every object of Processors is made on that one directory
NewProcessors ==
    /\ dir_exists = TRUE
    /\ files = <<>>

\* a load_from_cache that drops a record on the day it reaches max_age_days
load_from_cache_expires_early(gene, max_age_days) ==
    LET cache_path == get_cache_path(gene)
    IN  IF ~(dir_exists /\ cache_path \in DOMAIN files) THEN None
        ELSE IF ~files[cache_path].parses THEN None
        ELSE LET data == files[cache_path].data
                 cache_date == fromisoformat(get(data, "cached_at", Date2000))
                 age_days == days(now - cache_date)
             IN  IF age_days >= max_age_days THEN None ELSE Some(data)

\* what load_from_cache(gene, max_age_days) returns
load_from_cache(gene, max_age_days) ==
    LET cache_path == get_cache_path(gene)
    IN  IF ~(dir_exists /\ cache_path \in DOMAIN files) THEN None
        ELSE IF ~files[cache_path].parses THEN None
        ELSE LET data == files[cache_path].data
                 cache_date == fromisoformat(get(data, "cached_at", Date2000))
                 age_days == days(now - cache_date)
             IN  IF age_days > max_age_days THEN None ELSE Some(data)

\* what list_cached_genes() returns, for the files of glob("*.json") in the
\* order paths
RECURSIVE genes_of(_)
genes_of(paths) ==
    IF paths = <<>> THEN <<>>
    ELSE (IF files[Head(paths)].parses
          THEN <<get(files[Head(paths)].data, "gene", stem(Head(paths)))>>
          ELSE <<>>) \o genes_of(Tail(paths))

\* the elements of a set in some order
RECURSIVE glob(_)
glob(S) ==
    IF S = {} THEN <<>> ELSE LET p == CHOOSE p \in S : TRUE IN <<p>> \o glob(S \ {p})

list_cached_genes == sorted(genes_of(glob(IF dir_exists THEN DOMAIN files ELSE {})))

\* processor.load_from_cache(gene, max_age_days)
LoadFromCache(by, gene, max_age_days) ==
    /\ cret' = Call("load_from_cache", by, <<gene, max_age_days>>,
                    load_from_cache(gene, max_age_days), now)
    /\ UNCHANGED <<files, dir_exists, now, saved, dropped>>
    /\ UNCHANGED not_cache

\* a save_to_cache that stamps the file a day early
SaveToCacheBackdated(by, gene, yearly_counts, metadata) ==
    /\ IF dir_exists
       THEN files' = WriteFile(files, get_cache_path(gene), JsonFile(
                [gene |-> gene,
                 cached_at |-> isoformat(now - TicksPerDay),
                 yearly_counts |-> StrKeys(yearly_counts),
                 metadata |-> IF metadata = None THEN EmptyDict ELSE metadata[1]]))
       ELSE files' = files
    /\ cret' = Call("save_to_cache", by, <<gene, yearly_counts, metadata>>, None, now)
    /\ saved' = saved \cup {gene}
    /\ dropped' = None
    /\ UNCHANGED <<dir_exists, now>>
    /\ UNCHANGED not_cache

\* a save_to_cache that writes the years without their counts
SaveToCacheZeroCounts(by, gene, yearly_counts, metadata) ==
    /\ IF dir_exists
       THEN files' = WriteFile(files, get_cache_path(gene), JsonFile(
                [gene |-> gene,
                 cached_at |-> isoformat(now),
                 yearly_counts |-> [k \in DOMAIN StrKeys(yearly_counts) |-> 0],
                 metadata |-> IF metadata = None THEN EmptyDict ELSE metadata[1]]))
       ELSE files' = files
    /\ cret' = Call("save_to_cache", by, <<gene, yearly_counts, metadata>>, None, now)
    /\ saved' = saved \cup {gene}
    /\ dropped' = None
    /\ UNCHANGED <<dir_exists, now>>
    /\ UNCHANGED not_cache

\* processor.save_to_cache(gene, yearly_counts, metadata); an IOError of the
\* write (no directory) is caught
SaveToCache(by, gene, yearly_counts, metadata) ==
    /\ IF dir_exists
       THEN files' = WriteFile(files, get_cache_path(gene), JsonFile(
                [gene |-> gene,
                 cached_at |-> isoformat(now),
                 yearly_counts |-> StrKeys(yearly_counts),
                 metadata |-> IF metadata = None THEN EmptyDict ELSE metadata[1]]))
       ELSE files' = files
    /\ cret' = Call("save_to_cache", by, <<gene, yearly_counts, metadata>>, None, now)
    /\ saved' = saved \cup {gene}
    /\ dropped' = None
    /\ UNCHANGED <<dir_exists, now>>
    /\ UNCHANGED not_cache

\* a clear_cache that removes the directory and does not make it again
ClearCacheNoMkdir(by) ==
    /\ files' = <<>>
    /\ dir_exists' = FALSE
    /\ cret' = Call("clear_cache", by, <<>>, None, now)
    /\ dropped' = Some(saved)
    /\ saved' = {}
    /\ UNCHANGED now
    /\ UNCHANGED not_cache

\* processor.clear_cache(): shutil.rmtree(cache_dir), cache_dir.mkdir()
ClearCache(by) ==
    /\ IF dir_exists
       THEN files' = <<>> /\ dir_exists' = TRUE
       ELSE UNCHANGED <<files, dir_exists>>
    /\ cret' = Call("clear_cache", by, <<>>, None, now)
    /\ dropped' = Some(saved)
    /\ saved' = {}
    /\ UNCHANGED now
    /\ UNCHANGED not_cache

\* processor.list_cached_genes()
ListCachedGenes(by) ==
    /\ cret' = Call("list_cached_genes", by, <<>>, list_cached_genes, now)
    /\ UNCHANGED <<files, dir_exists, now, saved, dropped>>
    /\ UNCHANGED not_cache

\* time passes between two calls
Tick ==
    /\ now < MaxNow
    /\ now' = now + 1
    /\ UNCHANGED <<files, dir_exists, cret, saved, dropped>>
    /\ UNCHANGED not_cache

\* another program writes a file of the directory: one that is no JSON, or
\* the JSON object {}
ForeignFiles == {Unparsable, JsonFile(EmptyDict)}

WriteForeign(path, content) ==
    /\ dir_exists
    /\ files' = WriteFile(files, path, content)
    /\ UNCHANGED <<dir_exists, now, cret, saved, dropped>>
    /\ UNCHANGED not_cache

\* a game that is not played
GameAtRest ==
    /\ secret = <<>>
    /\ num_digits = 0
    /\ attempts = 0
    /\ guess = <<>>
    /\ ret = NoCall
    /\ made = 0
    /\ history = <<>>
    /\ pc = "none"

(***************************************************************************)
(* SpecCache: callers use the cache through DataProcessor objects, and     *)
(* nothing else touches the directory.                                     *)
(***************************************************************************)
InitCache ==
    /\ GameAtRest
    /\ StatsAtRest
    /\ ClientAtRest
    /\ ConverterAtRest
    /\ AppAtRest
    /\ NewProcessors
    /\ now = 0
    /\ cret = NotCalled
    /\ saved = {}
    /\ dropped = None

CallLoadFromCache ==
    \E by \in Processors, gene \in GeneNames, max_age_days \in MaxAges :
        LoadFromCache(by, gene, max_age_days)

CallSaveToCache ==
    \E by \in Processors, gene \in GeneNames, a \in SaveArgs :
        SaveToCache(by, gene, a[1], a[2])

CallClearCache == \E by \in Processors : ClearCache(by)

CallListCachedGenes == \E by \in Processors : ListCachedGenes(by)

NextCache ==
    \/ CallLoadFromCache
    \/ CallSaveToCache
    \/ CallClearCache
    \/ CallListCachedGenes
    \/ Tick

SpecCache == InitCache /\ [][NextCache]_vars

(***************************************************************************)
(* SpecCacheEnv: one DataProcessor uses the cache, and the directory is    *)
(* open to other programs.                                                 *)
(***************************************************************************)
OneLoadFromCache ==
    \E gene \in GeneNames, max_age_days \in MaxAges :
        LoadFromCache(1, gene, max_age_days)

OneSaveToCache ==
    \E gene \in GeneNames, a \in SaveArgs : SaveToCache(1, gene, a[1], a[2])

OneClearCache == ClearCache(1)

OneListCachedGenes == ListCachedGenes(1)

ForeignWrite ==
    \E gene \in GeneNames, content \in ForeignFiles :
        WriteForeign(get_cache_path(gene), content)

NextCacheEnv ==
    \/ OneLoadFromCache
    \/ OneSaveToCache
    \/ OneClearCache
    \/ OneListCachedGenes
    \/ Tick
    \/ ForeignWrite

SpecCacheEnv == InitCache /\ [][NextCacheEnv]_vars

(***************************************************************************)
(* Properties of the cache.                                                *)
(***************************************************************************)
\* the step is a call of op on a DataProcessor
Called(op) == cret' # cret /\ cret'.op = op

\* C15 (SpecCache): when load_from_cache(g, max_age_days) with
\* max_age_days >= 0 is the call that follows save_to_cache(g, counts) at
\* once, by the same or by another DataProcessor, it returns a record whose
\* gene is g and whose yearly_counts has exactly the saved years, written as
\* strings, as keys, each with its saved count.
C15_LoadReturnsWhatWasSaved ==
    [][(/\ cret.op = "save_to_cache"
        /\ Called("load_from_cache")
        /\ cret'.arg[1] = cret.arg[1]
        /\ cret'.arg[2] >= 0
        /\ cret'.at = cret.at)
         => /\ cret'.value # None
            /\ LET record == cret'.value[1]
                   counts == cret.arg[2]
               IN  /\ record.gene = cret.arg[1]
                   /\ DOMAIN record.yearly_counts = {IntToStr(y) : y \in DOMAIN counts}
                   /\ \A y \in DOMAIN counts :
                          record.yearly_counts[IntToStr(y)] = counts[y]]_vars

\* the second DataProcessor loaded, with max_age_days = 0, the two years "A"
\* was saved with at this tick
C15_Witness ==
    /\ cret.op = "load_from_cache"
    /\ cret.by = 2
    /\ cret.arg = <<(<<"A">>), 0>>
    /\ cret.at = now
    /\ cret.value # None
    /\ cret.value[1].gene = <<"A">>
    /\ cret.value[1].cached_at = isoformat(now)
    /\ Cardinality(DOMAIN cret.value[1].yearly_counts) = 2
    /\ cret.value[1].yearly_counts[IntToStr(FirstYear + 1)] = 0

\* the whole days from the time a stored record was cached at to now
WholeDaysOld(record) ==
    CHOOSE d \in 0 - MaxNow .. MaxNow :
        /\ d * TicksPerDay <= now - fromisoformat(record.cached_at)
        /\ now - fromisoformat(record.cached_at) < (d + 1) * TicksPerDay

\* C16 (SpecCacheEnv): load_from_cache(g, max_age_days) returns None when
\* the file of g is missing or is no JSON; for a stored record it returns
\* None when the record is more than max_age_days whole days old, and the
\* record itself when it is max_age_days old or younger.
C16_ExpiresAfterMaxAge ==
    [][Called("load_from_cache") =>
         LET path == get_cache_path(cret'.arg[1])
             max_age_days == cret'.arg[2]
         IN  IF path \notin DOMAIN files THEN cret'.value = None
             ELSE IF ~files[path].parses THEN cret'.value = None
             ELSE "cached_at" \in DOMAIN files[path].data =>
                    LET record == files[path].data
                    IN  /\ WholeDaysOld(record) > max_age_days => cret'.value = None
                        /\ WholeDaysOld(record) <= max_age_days
                               => cret'.value = Some(record)]_vars

\* a record that is one day and a tick old was served for max_age_days = 1
C16_Witness ==
    /\ cret.op = "load_from_cache"
    /\ cret.at = now
    /\ cret.arg[2] = 1
    /\ cret.value # None
    /\ "cached_at" \in DOMAIN cret.value[1]
    /\ now - fromisoformat(cret.value[1].cached_at) = TicksPerDay + 1

\* C17 (SpecCache): from clear_cache() to the next save_to_cache the
\* directory exists, every list_cached_genes() returns [] and every
\* load_from_cache returns None.
C17_ClearedCacheIsEmpty ==
    dropped # None =>
        /\ dir_exists
        /\ cret.op = "list_cached_genes" => cret.value = <<>>
        /\ cret.op = "load_from_cache" => cret.value = None

\* after two names were saved and cleared, one of them was loaded with the
\* longest max_age_days and None came back
C17_Witness ==
    /\ dropped # None
    /\ Cardinality(dropped[1]) >= 2
    /\ dir_exists
    /\ cret.op = "load_from_cache"
    /\ cret.arg[1] \in dropped[1]
    /\ cret.arg[2] = MaxAgeDays
    /\ cret.value = None

\* C18 (SpecCache): list_cached_genes() returns the gene names passed to
\* save_to_cache since the cache was made or last cleared, ascending, each
\* once: its length is the number of distinct names saved.
C18_ListIsWhatWasSaved ==
    [][Called("list_cached_genes") =>
         /\ Range(cret'.value) = saved
         /\ Len(cret'.value) = Cardinality(saved)
         /\ \A i, j \in DOMAIN cret'.value :
                i < j => StrLess(cret'.value[i], cret'.value[j])]_vars

\* what list_cached_genes() reports about a gene: whether it lists it
Lists(gene) == gene \in Range(list_cached_genes)

\* C27 (SpecCache): load_from_cache(g) returns a record only if the
\* record's gene field is g, and save_to_cache under another name than g
\* changes neither what load_from_cache(g) returns nor whether
\* list_cached_genes() lists g.
C27_GenesAreIsolated ==
    /\ [][Called("load_from_cache") /\ cret'.value # None
            => cret'.value[1].gene = cret'.arg[1]]_vars
    /\ [][Called("save_to_cache") =>
            \A gene \in GeneNames \ {cret'.arg[1]} :
                /\ Lists(gene)' = Lists(gene)
                /\ \A max_age_days \in MaxAges :
                       load_from_cache(gene, max_age_days)'
                           = load_from_cache(gene, max_age_days)]_vars

(***************************************************************************)
(* DataProcessor.process_yearly_data                                       *)
(*                                                                         *)
(* A dict is the sequence of its (key, value) pairs in insertion order.  A *)
(* float x is the fraction <<n, d>>, x = n / d, and a float rounded to one *)
(* decimal is its number of tenths: 12.5 is 125.                           *)
(***************************************************************************)
\* the 5 of counts[-5:]
Window == 5

\* the 10 of len(years) >= 10 and counts[-10:-5]
TwoWindows == 10

\* yearly_counts.keys()
keys(d) == [i \in DOMAIN d |-> d[i][1]]

\* yearly_counts[year]
item(d, year) == d[CHOOSE i \in DOMAIN d : d[i][1] = year][2]

\* the list with the int x put before the first element greater than x
RECURSIVE InsertInt(_, _)
InsertInt(x, s) ==
    IF s = <<>> THEN <<x>>
    ELSE IF x < Head(s) THEN <<x>> \o s
    ELSE <<Head(s)>> \o InsertInt(x, Tail(s))

\* the years in the order of insertion
insertion_order(s) == s

\* sorted(s) of a list of int
RECURSIVE sorted_int(_)
sorted_int(s) == IF s = <<>> THEN <<>> ELSE InsertInt(Head(s), sorted_int(Tail(s)))

\* sum(s)
RECURSIVE sum(_)
sum(s) == IF s = <<>> THEN 0 ELSE Head(s) + sum(Tail(s))

\* s[-n:]
last(s, n) == IF Len(s) <= n THEN s ELSE SubSeq(s, Len(s) - n + 1, Len(s))

\* s[-m:-n], for 0 < n < m
last_but(s, m, n) ==
    IF Len(s) <= n THEN <<>>
    ELSE SubSeq(s, IF Len(s) <= m THEN 1 ELSE Len(s) - m + 1, Len(s) - n)

\* max(yearly_counts.items(), key=lambda x: x[1]): the first item with the
\* greatest count
max_by_count(d) ==
    d[CHOOSE i \in DOMAIN d :
        /\ \A j \in DOMAIN d : d[j][2] <= d[i][2]
        /\ \A j \in DOMAIN d : j < i => d[j][2] < d[i][2]]

\* round(n / d, 0) for d > 0: the nearest integer, the even one of two
round_half_even(n, d) ==
    LET q == n \div d
        r == n - q * d
    IN  IF 2 * r < d THEN q
        ELSE IF 2 * r > d THEN q + 1
        ELSE IF q % 2 = 0 THEN q ELSE q + 1

\* round(x, 1) of x = n / d, in tenths
round1(n, d) == round_half_even(10 * n, d)

\* the five years before the last five, taken from the start of the list
previous_5_from_start(counts) == sum(SubSeq(counts, 1, Window))

\* sum(counts[-10:-5])
previous_5(counts) == sum(last_but(counts, TwoWindows, Window))

\* what process_yearly_data(yearly_counts) returns
process_yearly_data(yearly_counts) ==
    IF yearly_counts = <<>> THEN EmptyDict
    ELSE
    LET years == sorted_int(keys(yearly_counts))
        counts == [i \in DOMAIN years |-> item(yearly_counts, years[i])]
        total_pubs == sum(counts)
        avg_pubs == <<total_pubs, Len(counts)>>
        peak_year == max_by_count(yearly_counts)
        recent_5 == IF Len(years) >= TwoWindows THEN sum(last(counts, Window))
                    ELSE IF Len(counts) >= Window THEN sum(last(counts, Window))
                    ELSE sum(counts)
        trend_change ==
            IF Len(years) >= TwoWindows /\ previous_5(counts) > 0
            THEN <<(recent_5 - previous_5(counts)) * 100, previous_5(counts)>>
            ELSE <<0, 1>>
    IN  [years |-> years,
         counts |-> counts,
         total_publications |-> total_pubs,
         average_per_year |-> round1(avg_pubs[1], avg_pubs[2]),
         peak_year |-> peak_year[1],
         peak_count |-> peak_year[2],
         recent_5_year_count |-> recent_5,
         trend_change_percent |-> round1(trend_change[1], trend_change[2])]

\* processor.process_yearly_data(yearly)
ProcessYearlyData ==
    /\ stats = NotCalled
    /\ stats' = [op |-> "process_yearly_data", value |-> process_yearly_data(yearly)]
    /\ UNCHANGED <<yearly, trend>>
    /\ UNCHANGED not_stats

CountValues == {0, 1, BigCount}

\* every mapping of n years from FirstYear on to counts, in every order of
\* insertion
ShortInputs(n) ==
    {d \in [1 .. n -> (FirstYear .. FirstYear + n - 1) \X CountValues] :
        \A i, j \in 1 .. n : i # j => d[i][1] # d[j][1]}

\* five counts: a of BigCount, then b of 1, then 0
WindowCounts(a, b) ==
    [i \in 1 .. Window |-> IF i <= a THEN BigCount ELSE IF i <= a + b THEN 1 ELSE 0]

Windows == {WindowCounts(a, b) : a \in 0 .. Window, b \in 0 .. Window} 

\* the counts of nine, ten and eleven years in a row
LongCounts ==
    UNION {{Tail(p) \o r, p \o r} \cup {<<c>> \o p \o r : c \in CountValues} :
              p \in Windows, r \in Windows}

\* the counts given to the years from FirstYear on, inserted by ascending year
Ascending(counts) == [i \in DOMAIN counts |-> <<FirstYear + i - 1, counts[i]>>]

\* the mappings passed to process_yearly_data
YearlyInputs ==
    UNION {ShortInputs(n) : n \in 0 .. MaxShort}
        \cup {Ascending(c) : c \in LongCounts}
        \cup {Reverse(Ascending(c)) : c \in LongCounts}

(***************************************************************************)
(* SpecStats: process_yearly_data applied to one mapping.                  *)
(***************************************************************************)
InitStats ==
    /\ GameAtRest
    /\ files = <<>>
    /\ dir_exists = TRUE
    /\ now = 0
    /\ cret = NotCalled
    /\ saved = {}
    /\ dropped = None
    /\ yearly \in YearlyInputs
    /\ stats = NotCalled
    /\ trend = NotCalled
    /\ ClientAtRest
    /\ ConverterAtRest
    /\ AppAtRest

NextStats == ProcessYearlyData

SpecStats == InitStats /\ [][NextStats]_vars

(***************************************************************************)
(* Properties of process_yearly_data.                                      *)
(***************************************************************************)
Processed == stats.op = "process_yearly_data"

\* the years of the mapping passed
YearsPassed == {yearly[i][1] : i \in DOMAIN yearly}

\* the publications of the years S, added up
RECURSIVE Publications(_)
Publications(S) ==
    IF S = {} THEN 0
    ELSE LET y == CHOOSE y \in S : TRUE
         IN  (CHOOSE c \in CountValues : <<y, c>> \in Range(yearly)) + Publications(S \ {y})

\* the years that have at least lo and fewer than hi of the passed years
\* after them
YearsBack(lo, hi) ==
    {y \in YearsPassed :
        LET later == Cardinality({z \in YearsPassed : z > y})
        IN  lo <= later /\ later < hi}

Abs(x) == IF x < 0 THEN 0 - x ELSE x

Sign(x) == IF x < 0 THEN 0 - 1 ELSE IF x > 0 THEN 1 ELSE 0

\* C19: process_yearly_data returns {} for the empty mapping; for any other
\* it returns the years passed in strictly ascending order, counts[i] being
\* the count of years[i], total_publications the sum of all counts,
\* peak_count the greatest count and peak_year a year that has it.
C19_StatsDescribeCounts ==
    Processed =>
        IF yearly = <<>> THEN DOMAIN stats.value = {}
        ELSE LET v == stats.value
             IN  /\ Range(v.years) = YearsPassed
                 /\ \A i, j \in DOMAIN v.years : i < j => v.years[i] < v.years[j]
                 /\ DOMAIN v.counts = DOMAIN v.years
                 /\ \A i \in DOMAIN v.years :
                        <<v.years[i], v.counts[i]>> \in Range(yearly)
                 /\ v.total_publications = Publications(YearsPassed)
                 /\ \A i \in DOMAIN yearly : yearly[i][2] <= v.peak_count
                 /\ <<v.peak_year, v.peak_count>> \in Range(yearly)

\* three years were passed latest first, two of them share the greatest count
C19_Witness ==
    /\ Processed
    /\ yearly = <<(<<FirstYear + 2, BigCount>>), (<<FirstYear + 1, 1>>),
                  (<<FirstYear, BigCount>>)>>
    /\ stats.value.years = <<FirstYear, FirstYear + 1, FirstYear + 2>>
    /\ stats.value.counts = <<BigCount, 1, BigCount>>
    /\ stats.value.peak_count = BigCount

\* the sum of the five latest years and of the five years before them
Recent5 == Publications(YearsBack(0, Window))

Previous5 == Publications(YearsBack(Window, TwoWindows))

\* trend_change_percent, in tenths of a percent, is 0 for fewer than ten
\* years or Previous5 = 0, and else the tenth nearest to
\* (Recent5 - Previous5) / Previous5 * 100
TrendIsRoundedChange ==
    LET t == stats.value.trend_change_percent
    IN  IF Cardinality(YearsPassed) < TwoWindows \/ Previous5 = 0 THEN t = 0
        ELSE 2 * Abs(t * Previous5 - 1000 * (Recent5 - Previous5)) <= Previous5

\* C20, as stated: trend_change_percent is the rounded change of Recent5
\* against Previous5, 0 for fewer than ten years or Previous5 = 0, and for
\* ten years or more with Previous5 > 0 its sign is the sign of
\* Recent5 - Previous5.
C20_SignIsSignOfChange ==
    (Processed /\ yearly # <<>>) =>
        /\ TrendIsRoundedChange
        /\ (Cardinality(YearsPassed) >= TwoWindows /\ Previous5 > 0) =>
               Sign(stats.value.trend_change_percent) = Sign(Recent5 - Previous5)

\* C20, amended: trend_change_percent is the rounded change of Recent5
\* against Previous5, 0 for fewer than ten years or Previous5 = 0; for ten
\* years or more with Previous5 > 0 its sign is never opposite to the sign
\* of Recent5 - Previous5, it is that sign when the change is more than
\* 0.05 percent of Previous5, and it is 0 when the change is less.
C20_SignIsNeverOpposite ==
    (Processed /\ yearly # <<>>) =>
        /\ TrendIsRoundedChange
        /\ (Cardinality(YearsPassed) >= TwoWindows /\ Previous5 > 0) =>
               LET t == stats.value.trend_change_percent
                   change == Recent5 - Previous5
               IN  /\ Sign(t) # 0 - Sign(change) \/ change = 0
                   /\ 2000 * Abs(change) > Previous5 => Sign(t) = Sign(change)
                   /\ 2000 * Abs(change) < Previous5 => t = 0

\* of eleven years the five latest have one publication more than the five
\* before them, and the trend is 0.0
C20_Witness ==
    /\ Processed
    /\ Len(yearly) = TwoWindows + 1
    /\ Previous5 = 3 * BigCount
    /\ Recent5 = 3 * BigCount + 1
    /\ Publications(YearsBack(TwoWindows, TwoWindows + 1)) = BigCount
    /\ stats.value.trend_change_percent = 0

(***************************************************************************)
(* DataProcessor.determine_trend_status                                    *)
(*                                                                         *)
(* A percentage is its number of tenths, as trend_change_percent is; the   *)
(* statuses are written without their emoji.                               *)
(***************************************************************************)
\* Config.TREND_HOT_THRESHOLD = 50.0, in tenths
TREND_HOT_THRESHOLD == 500

\* Config.TREND_GROWING_THRESHOLD = 10.0, in tenths
TREND_GROWING_THRESHOLD == 100

\* Config.TREND_DECLINING_THRESHOLD = -10.0, in tenths
TREND_DECLINING_THRESHOLD == 0 - 100

\* a determine_trend_status whose first two comparisons are not strict
determine_trend_status_not_strict(trend_change_percent) ==
    IF trend_change_percent >= TREND_HOT_THRESHOLD THEN "Hot Topic"
    ELSE IF trend_change_percent >= TREND_GROWING_THRESHOLD THEN "Growing"
    ELSE IF trend_change_percent > TREND_DECLINING_THRESHOLD THEN "Stable"
    ELSE "Declining"

\* what determine_trend_status(trend_change_percent) returns
determine_trend_status(trend_change_percent) ==
    IF trend_change_percent > TREND_HOT_THRESHOLD THEN "Hot Topic"
    ELSE IF trend_change_percent > TREND_GROWING_THRESHOLD THEN "Growing"
    ELSE IF trend_change_percent > TREND_DECLINING_THRESHOLD THEN "Stable"
    ELSE "Declining"

\* processor.determine_trend_status(p)
DetermineTrendStatus(p) ==
    /\ trend' = [op |-> "determine_trend_status", arg |-> p,
                 value |-> determine_trend_status(p)]
    /\ UNCHANGED <<yearly, stats>>
    /\ UNCHANGED not_stats

\* the percentages passed, in tenths
Percentages == (0 - 10 * MaxPercent) .. (10 * MaxPercent)

(***************************************************************************)
(* SpecTrend: determine_trend_status called time and again.                *)
(***************************************************************************)
InitTrend ==
    /\ GameAtRest
    /\ CacheAtRest
    /\ StatsAtRest
    /\ ClientAtRest
    /\ ConverterAtRest
    /\ AppAtRest

CallDetermineTrendStatus == \E p \in Percentages : DetermineTrendStatus(p)

NextTrend == CallDetermineTrendStatus

SpecTrend == InitTrend /\ [][NextTrend]_vars

\* the statuses, from the lowest to the highest
StatusRank(status) ==
    CHOOSE r \in 1 .. 4 : <<"Declining", "Stable", "Growing", "Hot Topic">>[r] = status

\* C21 (SpecTrend): determine_trend_status returns Hot Topic for p > 50,
\* Growing for 10 < p <= 50, Stable for -10 < p <= 10 and Declining for
\* p <= -10, and of two calls in a row the one with the larger p never gets
\* the lower status.
C21_StatusByStrictThresholds ==
    /\ [](trend.op = "determine_trend_status" =>
             LET p == trend.arg
             IN  /\ trend.value = "Hot Topic" <=> p > 500
                 /\ trend.value = "Growing" <=> (100 < p /\ p <= 500)
                 /\ trend.value = "Stable" <=> (0 - 100 < p /\ p <= 100)
                 /\ trend.value = "Declining" <=> p <= 0 - 100)
    /\ [][(trend.op = "determine_trend_status" /\ trend.arg <= trend'.arg)
             => StatusRank(trend.value) <= StatusRank(trend'.value)]_vars

\* 10.0 percent was passed and is Stable
C21_Witness ==
    /\ trend.op = "determine_trend_status"
    /\ trend.arg = TREND_GROWING_THRESHOLD
    /\ trend.value = "Stable"

(***************************************************************************)
(* PubMedClient (day04/pubmed_client.py)                                   *)
(*                                                                         *)
(* Bio.Entrez is the environment: each search receives one of Responses,   *)
(* which says what esearch, read and close do and what the record holds.   *)
(***************************************************************************)
\* str(n) of an int
str_of_int(n) == IF n < 0 THEN <<"-">> \o IntToStr(0 - n) ELSE IntToStr(n)

\* the value of a non-empty string of decimal digits
RECURSIVE digits_value(_)
digits_value(s) ==
    IF s = <<>> THEN 0
    ELSE digits_value(SubSeq(s, 1, Len(s) - 1)) * Len(DecimalChars)
            + (CHOOSE d \in 0 .. 9 : str(d) = s[Len(s)])

\* int(s): None for ValueError
int_of_str(s) ==
    LET t == strip(s)
        signed == t # <<>> /\ Head(t) \in {"-", "+"}
        body == IF signed THEN Tail(t) ELSE t
    IN  IF body = <<>> \/ \E i \in DOMAIN body : body[i] \notin Range(DecimalChars)
        THEN None
        ELSE Some(IF signed /\ Head(t) = "-" THEN 0 - digits_value(body)
                  ELSE digits_value(body))

\* the term of the search: the gene, and the year of "AND {year}[PDAT]"
\* when year is truthy
query(gene, year) ==
    [gene |-> gene,
     pdat |-> IF year = None \/ year = Some(0) THEN None ELSE Some(str_of_int(year[1]))]

\* what Entrez does in one search
Response(esearch, read, close, count) ==
    [esearch |-> esearch, read |-> read, close |-> close, count |-> count]

\* the outcome of a search: whether it raised, what it returned, and how
\* often the handle, if there was one, was closed
Outcome(gene, year, resp, raised, value, handle) ==
    [kind |-> "search", gene |-> gene, year |-> year, query |-> query(gene, year),
     resp |-> resp, raised |-> raised, value |-> value, handle |-> handle]

\* a search_gene_publications that catches ValueError only
search_gene_publications_narrow_except(gene, year, resp) ==
    IF resp.esearch = "raises" THEN Outcome(gene, year, resp, TRUE, 0, None)
        ELSE IF resp.read = "raises" THEN Outcome(gene, year, resp, TRUE, 0, Some(0))
        ELSE IF resp.close = "raises" THEN Outcome(gene, year, resp, TRUE, 0, Some(1))
        ELSE LET count_str == IF resp.count = None THEN <<"0">> ELSE resp.count[1]
                 count == int_of_str(count_str)
             IN  IF count = None THEN Outcome(gene, year, resp, FALSE, 0, Some(1))
                 ELSE Outcome(gene, year, resp, FALSE, count[1], Some(1))

\* search_gene_publications(gene, year): esearch, read, close, then
\* int(str(record.get("Count", "0"))); except Exception: return 0
search_gene_publications(gene, year, resp) ==
    IF resp.esearch = "raises" THEN Outcome(gene, year, resp, FALSE, 0, None)
        ELSE IF resp.read = "raises" THEN Outcome(gene, year, resp, FALSE, 0, Some(0))
        ELSE IF resp.close = "raises" THEN Outcome(gene, year, resp, FALSE, 0, Some(1))
        ELSE LET count_str == IF resp.count = None THEN <<"0">> ELSE resp.count[1]
                 count == int_of_str(count_str)
             IN  IF count = None THEN Outcome(gene, year, resp, FALSE, 0, Some(1))
                 ELSE Outcome(gene, year, resp, FALSE, count[1], Some(1))

\* d[k] = v of a dict
dict_set(d, k, v) ==
    IF \E i \in DOMAIN d : d[i][1] = k
    THEN [i \in DOMAIN d |-> IF d[i][1] = k THEN <<k, v>> ELSE d[i]]
    ELSE Append(d, <<k, v>>)

\* client.search_gene_publications(gene, year)
SearchGenePublications(gene, year, resp) ==
    /\ pm_pc = "idle"
    /\ LET out == search_gene_publications(gene, year, resp)
       IN  /\ pm_log' = <<out>>
           /\ pm_ret' = [op |-> "search_gene_publications", raised |-> out.raised,
                         value |-> out.value]
    /\ pm_call' = [op |-> "search_gene_publications", gene |-> gene, year |-> year]
    /\ pm_idx' = 0
    /\ pm_counts' = <<>>
    /\ UNCHANGED pm_pc
    /\ UNCHANGED not_client

\* client.validate_gene_exists(gene)
ValidateGeneExists(gene, resp) ==
    /\ pm_pc = "idle"
    /\ LET out == search_gene_publications(gene, None, resp)
       IN  /\ pm_log' = <<out>>
           /\ pm_ret' = [op |-> "validate_gene_exists", raised |-> out.raised,
                         value |-> out.value > 0]
    /\ pm_call' = [op |-> "validate_gene_exists", gene |-> gene]
    /\ pm_idx' = 0
    /\ pm_counts' = <<>>
    /\ UNCHANGED pm_pc
    /\ UNCHANGED not_client

\* client.get_yearly_counts(gene, start_year, end_year, progress_callback):
\* the statements before the loop
GetYearlyCounts(gene, start_year, end_year, progress_callback) ==
    /\ pm_pc = "idle"
    /\ pm_call' = [op |-> "get_yearly_counts", gene |-> gene,
                   start_year |-> start_year, end_year |-> end_year,
                   progress_callback |-> progress_callback,
                   total_years |-> end_year - start_year + 1]
    /\ pm_counts' = <<>>
    /\ pm_log' = <<>>
    /\ pm_idx' = 0
    /\ pm_pc' = "loop"
    /\ pm_ret' = NotCalled
    /\ UNCHANGED not_client

\* progress_callback(year, count, completed, total), as the caller sees it
Progress(year, count, completed, total) ==
    [kind |-> "progress", year |-> year, count |-> count,
     completed |-> completed, total |-> total]

\* a pass of the loop that reports idx where idx + 1 is due
NextYearCountingFromZero(resp) ==
    /\ pm_pc = "loop"
    /\ pm_call.start_year + pm_idx <= pm_call.end_year
    /\ LET year == pm_call.start_year + pm_idx
           out == search_gene_publications(pm_call.gene, Some(year), resp)
       IN  /\ pm_counts' = dict_set(pm_counts, year, out.value)
           /\ pm_log' = pm_log \o <<out>> \o
                  (IF pm_call.progress_callback
                   THEN <<Progress(year, out.value, pm_idx, pm_call.total_years)>>
                   ELSE <<>>)
    /\ pm_idx' = pm_idx + 1
    /\ UNCHANGED <<pm_pc, pm_call, pm_ret>>
    /\ UNCHANGED not_client

\* one pass of the loop of get_yearly_counts: search, store, report
NextYear(resp) ==
    /\ pm_pc = "loop"
    /\ pm_call.start_year + pm_idx <= pm_call.end_year
    /\ LET year == pm_call.start_year + pm_idx
           out == search_gene_publications(pm_call.gene, Some(year), resp)
       IN  /\ pm_counts' = dict_set(pm_counts, year, out.value)
           /\ pm_log' = pm_log \o <<out>> \o
                  (IF pm_call.progress_callback
                   THEN <<Progress(year, out.value, pm_idx + 1, pm_call.total_years)>>
                   ELSE <<>>)
    /\ pm_idx' = pm_idx + 1
    /\ UNCHANGED <<pm_pc, pm_call, pm_ret>>
    /\ UNCHANGED not_client

\* get_yearly_counts: return yearly_counts, after the last year
ReturnYearlyCounts ==
    /\ pm_pc = "loop"
    /\ pm_call.start_year + pm_idx > pm_call.end_year
    /\ pm_ret' = [op |-> "get_yearly_counts", raised |-> FALSE, value |-> pm_counts]
    /\ pm_pc' = "idle"
    /\ UNCHANGED <<pm_call, pm_idx, pm_counts, pm_log>>
    /\ UNCHANGED not_client

\* the Count fields Entrez may deliver
CountStrings == {<<"0">>, <<"1", "2">>, <<" ", "3">>, <<"-", "1">>, <<"x">>}

Responses ==
    {Response("raises", "ok", "ok", None),
     Response("ok", "raises", "ok", None),
     Response("ok", "ok", "raises", None),
     Response("ok", "ok", "ok", None)}
        \cup {Response("ok", "ok", "ok", Some(c)) : c \in CountStrings}

\* what Entrez does in the searches of get_yearly_counts: a failure, no
\* publication, some publications
LoopResponses ==
    {Response("ok", "raises", "ok", None),
     Response("ok", "ok", "ok", Some(<<"0">>)),
     Response("ok", "ok", "ok", Some(<<"1", "2">>))}

\* the genes searched for
SearchGenes == {<<"A">>, <<"B">>}

\* the years a range starts at: year 0 is falsy
StartYears == {0 - 1, FirstYear}

(***************************************************************************)
(* SpecClient: calls on one PubMedClient, one after the other.             *)
(***************************************************************************)
InitClient ==
    /\ GameAtRest
    /\ CacheAtRest
    /\ StatsAtRest
    /\ ClientAtRest
    /\ ConverterAtRest
    /\ AppAtRest

CallSearchGenePublications ==
    \E gene \in SearchGenes, resp \in Responses,
       year \in {None} \cup {Some(y) : y \in {0, FirstYear}} :
        SearchGenePublications(gene, year, resp)

CallValidateGeneExists ==
    \E gene \in SearchGenes, resp \in Responses : ValidateGeneExists(gene, resp)

CallGetYearlyCounts ==
    \E gene \in SearchGenes, start_year \in StartYears, span \in 0 .. MaxSpan,
       progress_callback \in BOOLEAN :
        GetYearlyCounts(gene, start_year, start_year + span - 1, progress_callback)

LoopGetYearlyCounts == \E resp \in LoopResponses : NextYear(resp)

NextClient ==
    \/ CallSearchGenePublications
    \/ CallValidateGeneExists
    \/ CallGetYearlyCounts
    \/ LoopGetYearlyCounts
    \/ ReturnYearlyCounts

SpecClient == InitClient /\ [][NextClient]_vars

(***************************************************************************)
(* Properties of the PubMedClient.                                         *)
(***************************************************************************)
IsSearch(e) == e.kind = "search"

IsProgress(e) == e.kind = "progress"

\* the searches and the progress callbacks of the call, each in order
Searches == SelectSeq(pm_log, IsSearch)

Callbacks == SelectSeq(pm_log, IsProgress)

NoBlanks(s) == SelectSeq(s, LAMBDA c : ~IsSpaceChar(c))

\* the integers a Count field of the model may write
SmallInts == (0 - 99) .. 99

\* the Count field of the response is the written form of an integer
CountIsInteger(resp) ==
    /\ resp.count # None
    /\ \E n \in SmallInts : str_of_int(n) = NoBlanks(resp.count[1])

CountValue(resp) == CHOOSE n \in SmallInts : str_of_int(n) = NoBlanks(resp.count[1])

\* the request, the parsing of the response or the conversion of the count
\* fails
SearchFails(resp) ==
    \/ resp.esearch = "raises"
    \/ resp.read = "raises"
    \/ resp.close = "raises"
    \/ resp.count # None /\ ~CountIsInteger(resp)

\* C23 (SpecClient): search_gene_publications never raises; it returns 0
\* when the request, the parsing or the count conversion fails and else the
\* integer the Count field writes; validate_gene_exists never raises and
\* returns true exactly when nothing fails and that integer is greater
\* than 0.
C23_SearchNeverRaises ==
    /\ \A i \in DOMAIN pm_log : IsSearch(pm_log[i]) =>
           /\ ~pm_log[i].raised
           /\ SearchFails(pm_log[i].resp) => pm_log[i].value = 0
           /\ CountIsInteger(pm_log[i].resp) /\ ~SearchFails(pm_log[i].resp)
                  => pm_log[i].value = CountValue(pm_log[i].resp)
    /\ pm_ret.op = "search_gene_publications" =>
           ~pm_ret.raised /\ pm_ret.value = pm_log[1].value
    /\ pm_ret.op = "validate_gene_exists" =>
           /\ ~pm_ret.raised
           /\ pm_ret.value <=> /\ ~SearchFails(pm_log[1].resp)
                               /\ CountIsInteger(pm_log[1].resp)
                               /\ CountValue(pm_log[1].resp) > 0

\* validate_gene_exists returned false when Entrez.read raised
C23_Witness ==
    /\ pm_ret.op = "validate_gene_exists"
    /\ pm_log[1].resp.read = "raises"
    /\ ~pm_ret.raised
    /\ pm_ret.value = FALSE

\* C24 (SpecClient): every handle search_gene_publications got from
\* Entrez.esearch was closed exactly once when the search returned.
C24_HandleClosedOnce ==
    \A i \in DOMAIN pm_log :
        (IsSearch(pm_log[i]) /\ pm_log[i].handle # None) => pm_log[i].handle = Some(1)

(***************************************************************************)
(* day03/converter.py.  A float is written as the exact fraction           *)
(* <<numerator, denominator>> in lowest terms, so 273.15 is <<5463, 20>>;  *)
(* the rounding of float arithmetic is left out.  A call ends as           *)
(* Returned(value) or as Raised(exception).                                *)
(***************************************************************************)
RECURSIVE Gcd(_, _)
Gcd(a, b) == IF b = 0 THEN a ELSE Gcd(b, a % b)

\* the fraction n / d in lowest terms, d # 0
Rat(n, d) ==
    LET a == IF n < 0 THEN 0 - n ELSE n
        b == IF d < 0 THEN 0 - d ELSE d
        g == Gcd(a, b)
        s == IF d < 0 THEN 0 - 1 ELSE 1
    IN  IF n = 0 THEN <<0, 1>> ELSE <<s * (n \div g), b \div g>>

RatAdd(x, y) == Rat(x[1] * y[2] + y[1] * x[2], x[2] * y[2])

RatSub(x, y) == Rat(x[1] * y[2] - y[1] * x[2], x[2] * y[2])

RatMul(x, y) == Rat(x[1] * y[1], x[2] * y[2])

RatDiv(x, y) == Rat(x[1] * y[2], x[2] * y[1])

Returned(v) == [raised |-> "", value |-> Some(v)]

Raised(e) == [raised |-> e, value |-> None]

UpperCase ==
    <<"A", "B", "C", "D", "E", "F", "G", "H", "I", "J", "K", "L", "M",
      "N", "O", "P", "Q", "R", "S", "T", "U", "V", "W", "X", "Y", "Z">>

LowerCase ==
    <<"a", "b", "c", "d", "e", "f", "g", "h", "i", "j", "k", "l", "m",
      "n", "o", "p", "q", "r", "s", "t", "u", "v", "w", "x", "y", "z">>

\* str.lower()
lower(s) ==
    [i \in DOMAIN s |->
        IF s[i] \in Range(UpperCase)
        THEN LowerCase[CHOOSE j \in DOMAIN UpperCase : UpperCase[j] = s[i]]
        ELSE s[i]]

\* the words converter.py compares with
Word_c == <<"c">>

Word_celsius == <<"c", "e", "l", "s", "i", "u", "s">>

Word_centigrade == <<"c", "e", "n", "t", "i", "g", "r", "a", "d", "e">>

Word_f == <<"f">>

Word_fahrenheit == <<"f", "a", "h", "r", "e", "n", "h", "e", "i", "t">>

Word_k == <<"k">>

Word_kelvin == <<"k", "e", "l", "v", "i", "n">>

Word_cm == <<"c", "m">>

Word_centimeter == <<"c", "e", "n", "t", "i", "m", "e", "t", "e", "r">>

Word_centimeters == Word_centimeter \o <<"s">>

Word_in == <<"i", "n">>

Word_inch == <<"i", "n", "c", "h">>

Word_inches == Word_inch \o <<"e", "s">>

Word_temperature == <<"t", "e", "m", "p", "e", "r", "a", "t", "u", "r", "e">>

Word_temp == <<"t", "e", "m", "p">>

Word_t == <<"t">>

Word_length == <<"l", "e", "n", "g", "t", "h">>

Word_len == <<"l", "e", "n">>

Word_l == <<"l">>

\* _normalize_unit(unit): the short name, or the ValueError raised
_normalize_unit(unit) ==
    LET u == lower(strip(unit))
    IN  IF u \in {Word_c, Word_celsius, Word_centigrade} THEN Returned(Word_c)
        ELSE IF u \in {Word_f, Word_fahrenheit} THEN Returned(Word_f)
        ELSE IF u \in {Word_k, Word_kelvin} THEN Returned(Word_k)
        ELSE IF u \in {Word_cm, Word_centimeter, Word_centimeters} THEN Returned(Word_cm)
        ELSE IF u \in {Word_in, Word_inch, Word_inches} THEN Returned(Word_in)
        ELSE Raised("ValueError")

\* a _to_celsius that passes a value in any known unit through
_to_celsius_any_unit(value, unit) ==
    LET u == _normalize_unit(unit)
    IN  IF u.raised # "" THEN u
        ELSE IF u.value = Some(Word_f)
        THEN Returned(RatDiv(RatMul(RatSub(value, Rat(32, 1)), Rat(5, 1)), Rat(9, 1)))
        ELSE IF u.value = Some(Word_k) THEN Returned(RatSub(value, Rat(27315, 100)))
        ELSE Returned(value)

\* _to_celsius(value, unit)
_to_celsius(value, unit) ==
    LET u == _normalize_unit(unit)
    IN  IF u.raised # "" THEN u
        ELSE IF u.value = Some(Word_c) THEN Returned(value)
        ELSE IF u.value = Some(Word_f)
        THEN Returned(RatDiv(RatMul(RatSub(value, Rat(32, 1)), Rat(5, 1)), Rat(9, 1)))
        ELSE IF u.value = Some(Word_k) THEN Returned(RatSub(value, Rat(27315, 100)))
        ELSE Raised("ValueError")

\* _from_celsius(c, unit)
_from_celsius(c, unit) ==
    LET u == _normalize_unit(unit)
    IN  IF u.raised # "" THEN u
        ELSE IF u.value = Some(Word_c) THEN Returned(c)
        ELSE IF u.value = Some(Word_f)
        THEN Returned(RatAdd(RatDiv(RatMul(c, Rat(9, 1)), Rat(5, 1)), Rat(32, 1)))
        ELSE IF u.value = Some(Word_k) THEN Returned(RatAdd(c, Rat(27315, 100)))
        ELSE Raised("ValueError")

\* _to_cm(value, unit)
_to_cm(value, unit) ==
    LET u == _normalize_unit(unit)
    IN  IF u.raised # "" THEN u
        ELSE IF u.value = Some(Word_cm) THEN Returned(value)
        ELSE IF u.value = Some(Word_in) THEN Returned(RatMul(value, Rat(254, 100)))
        ELSE Raised("ValueError")

\* _from_cm(cm, unit)
_from_cm(cm, unit) ==
    LET u == _normalize_unit(unit)
    IN  IF u.raised # "" THEN u
        ELSE IF u.value = Some(Word_cm) THEN Returned(cm)
        ELSE IF u.value = Some(Word_in) THEN Returned(RatDiv(cm, Rat(254, 100)))
        ELSE Raised("ValueError")

\* convert(task, value, from_unit, to_unit)
convert(task, value, from_unit, to_unit) ==
    LET t == lower(strip(task))
    IN  IF t \in {Word_temperature, Word_temp, Word_t}
        THEN LET c == _to_celsius(value, from_unit)
             IN  IF c.raised # "" THEN c ELSE _from_celsius(c.value[1], to_unit)
        ELSE IF t \in {Word_length, Word_len, Word_l}
        THEN LET cm == _to_cm(value, from_unit)
             IN  IF cm.raised # "" THEN cm ELSE _from_cm(cm.value[1], to_unit)
        ELSE Raised("ValueError")

\* a caller about to call convert
ConvertArgs(task, value, from_unit, to_unit) ==
    [op |-> "call", task |-> task, value |-> value,
     from_unit |-> from_unit, to_unit |-> to_unit, ret |-> NotCalled]

\* the call of convert
Convert ==
    /\ conv.op = "call"
    /\ conv' = [conv EXCEPT !.op = "convert",
                            !.ret = convert(conv.task, conv.value, conv.from_unit, conv.to_unit)]
    /\ UNCHANGED <<disk, pf_ret>>
    /\ UNCHANGED not_converter

\* the task names a caller passes: the names of the code in several
\* spellings, and names the code does not know
TaskNames ==
    {Word_temperature, <<"T", "e", "m", "p">>, <<" ", "t">>,
     Word_length, <<"L", "E", "N">>, <<"l", " ">>,
     <<"m", "a", "s", "s">>, <<>>}

\* the unit names a caller passes
UnitNames ==
    {Word_c, <<"C">>, <<"C", "e", "l", "s", "i", "u", "s">>, Word_centigrade,
     <<"F">>, Word_fahrenheit, Word_k, <<" ", "K", " ">>,
     Word_cm, <<"C", "M">>, Word_centimeters, Word_in, <<"I", "n", "c", "h">>,
     <<"m">>, <<>>}

\* the values a caller passes: 0, 32, 273.15, 2.54, -40
ConvertValues == {Rat(0, 1), Rat(32, 1), Rat(27315, 100), Rat(254, 100), Rat(0 - 40, 1)}

InitConvert ==
    /\ GameAtRest
    /\ CacheAtRest
    /\ StatsAtRest
    /\ ClientAtRest
    /\ AppAtRest
    /\ \E task \in TaskNames, value \in ConvertValues,
          from_unit \in UnitNames, to_unit \in UnitNames :
           conv = ConvertArgs(task, value, from_unit, to_unit)
    /\ disk = <<>>
    /\ pf_ret = NotCalled

NextConvert == Convert

SpecConvert == InitConvert /\ [][NextConvert]_vars

(***************************************************************************)
(* Claims about convert.                                                   *)
(***************************************************************************)
\* the family a task name stands for, "" when it is not a task name
TaskFamily(task) ==
    LET t == lower(strip(task))
    IN  IF t \in {Word_temperature, Word_temp, Word_t} THEN "temperature"
        ELSE IF t \in {Word_length, Word_len, Word_l} THEN "length"
        ELSE ""

\* the unit a unit name stands for, "" when it is not a unit name
UnitMeant(unit) ==
    LET u == lower(strip(unit))
    IN  IF u \in {Word_c, Word_celsius, Word_centigrade} THEN "celsius"
        ELSE IF u \in {Word_f, Word_fahrenheit} THEN "fahrenheit"
        ELSE IF u \in {Word_k, Word_kelvin} THEN "kelvin"
        ELSE IF u \in {Word_cm, Word_centimeter, Word_centimeters} THEN "centimeter"
        ELSE IF u \in {Word_in, Word_inch, Word_inches} THEN "inch"
        ELSE ""

\* the family of a unit name, "" when it is not a unit name
UnitFamily(unit) ==
    IF UnitMeant(unit) \in {"celsius", "fahrenheit", "kelvin"} THEN "temperature"
    ELSE IF UnitMeant(unit) \in {"centimeter", "inch"} THEN "length"
    ELSE ""

IsNumber(v) == v \in Int \X (Nat \ {0})

\* C25 (SpecConvert): convert raises ValueError when the task is not a
\* temperature or length name, when a unit is unknown and when a unit is
\* not of the task's family; otherwise it returns a number.  The outcome
\* is the same for every spelling (letter case, synonym) of the task and
\* of each unit.
C25_ConvertRaisesOrReturns ==
    conv.op = "convert" =>
        LET family == TaskFamily(conv.task)
            bad == \/ family = ""
                   \/ UnitFamily(conv.from_unit) # family
                   \/ UnitFamily(conv.to_unit) # family
        IN  /\ bad => conv.ret = Raised("ValueError")
            /\ ~bad => conv.ret.raised = "" /\ conv.ret.value # None
                           /\ IsNumber(conv.ret.value[1])
            /\ \A task \in TaskNames :
                   TaskFamily(task) = family =>
                       convert(task, conv.value, conv.from_unit, conv.to_unit) = conv.ret
            /\ \A unit \in UnitNames :
                   /\ UnitMeant(unit) = UnitMeant(conv.from_unit) =>
                          convert(conv.task, conv.value, unit, conv.to_unit) = conv.ret
                   /\ UnitMeant(unit) = UnitMeant(conv.to_unit) =>
                          convert(conv.task, conv.value, conv.from_unit, unit) = conv.ret

\* convert("Temp", 32, "F", " K ") returned 273.15
C25_Witness ==
    /\ conv.op = "convert"
    /\ conv.task = <<"T", "e", "m", "p">>
    /\ conv.value = <<32, 1>>
    /\ conv.from_unit = <<"F">>
    /\ conv.to_unit = <<" ", "K", " ">>
    /\ conv.ret = Returned(<<5463, 20>>)

(***************************************************************************)
(* day03/converter_cli.py: process_file.  A text file is the list of its   *)
(* lines, each without its line end; iterating over the file gives each    *)
(* line with "\n" appended.  A path is a file name with no directory       *)
(* part.  What process_file writes is kept as the list of the strings it   *)
(* passes to write(), each as the record of the parts its f-string puts    *)
(* together, so a float is written as its value and an exception as its    *)
(* type.  float() is modelled for signed decimal numerals only, and the    *)
(* lines of the model hold no other spelling of a number.                  *)
(***************************************************************************)
\* the index of the dot os.path.splitext splits at, 0 when there is none
ExtStart(path) ==
    LET dots == {i \in DOMAIN path :
                    /\ path[i] = "."
                    /\ \E j \in 1 .. i - 1 : path[j] # "."}
    IN  IF dots = {} THEN 0 ELSE CHOOSE i \in dots : \A j \in dots : j <= i

\* os.path.splitext(path)
splitext(path) ==
    IF ExtStart(path) = 0 THEN <<path, <<>>>>
    ELSE <<SubSeq(path, 1, ExtStart(path) - 1), SubSeq(path, ExtStart(path), Len(path))>>

Word__converted == <<"_", "c", "o", "n", "v", "e", "r", "t", "e", "d">>

\* _output_path_for(path)
_output_path_for(path) ==
    LET base == splitext(path)[1]
        ext == splitext(path)[2]
    IN  IF ext # <<>> THEN base \o Word__converted \o ext
        ELSE path \o Word__converted

\* the marker csv.reader processes after the last character of a line
EOL == "EOL"

\* the reader: its parser state, its current field, the fields it saved,
\* the rows it returned, and the exception it raised if it did
Reader(state, field, row, rows, raised) ==
    [state |-> state, field |-> field, row |-> row, rows |-> rows, raised |-> raised]

\* the reader after one more character c of a line, or after the line's
\* end when c is EOL
parse_process_char(p, c) ==
    LET at_end == c = "\n" \/ c = EOL
        to(state, field, row) == Reader(state, field, row, p.rows, "")
        \* the record is complete
        emit(r) == Reader("START_RECORD", <<>>, <<>>, Append(p.rows, r), "")
        save_at_end == IF c = EOL THEN emit(Append(p.row, p.field))
                       ELSE to("EAT_CRNL", <<>>, Append(p.row, p.field))
        save_field == to("START_FIELD", <<>>, Append(p.row, p.field))
        add_char(state) == to(state, Append(p.field, c), p.row)
    IN  IF p.state = "START_RECORD" /\ c = EOL THEN emit(p.row)
        ELSE IF p.state = "START_RECORD" /\ c = "\n"
        THEN to("EAT_CRNL", p.field, p.row)
        ELSE IF p.state \in {"START_RECORD", "START_FIELD"}
        THEN IF at_end THEN save_at_end
             ELSE IF c = "\"" THEN to("IN_QUOTED_FIELD", p.field, p.row)
             ELSE IF c = "," THEN save_field
             ELSE add_char("IN_FIELD")
        ELSE IF p.state = "IN_FIELD"
        THEN IF at_end THEN save_at_end
             ELSE IF c = "," THEN save_field
             ELSE add_char("IN_FIELD")
        ELSE IF p.state = "IN_QUOTED_FIELD"
        THEN IF c = EOL THEN p
             ELSE IF c = "\"" THEN to("QUOTE_IN_QUOTED_FIELD", p.field, p.row)
             ELSE add_char("IN_QUOTED_FIELD")
        ELSE IF p.state = "QUOTE_IN_QUOTED_FIELD"
        THEN IF c = "\"" THEN add_char("IN_QUOTED_FIELD")
             ELSE IF c = "," THEN save_field
             ELSE IF at_end THEN save_at_end
             ELSE add_char("IN_FIELD")
        \* EAT_CRNL
        ELSE IF c = "\n" THEN p
             ELSE IF c = EOL THEN emit(p.row)
             ELSE [p EXCEPT !.raised = "Error"]

\* the reader after the characters of chars from the i-th on
RECURSIVE parse_chars(_, _, _)
parse_chars(p, chars, i) ==
    IF p.raised # "" \/ i > Len(chars) THEN p
    ELSE parse_chars(parse_process_char(p, chars[i]), chars, i + 1)

\* the reader after the lines, each one followed by "\n" and its end
RECURSIVE parse_lines(_, _)
parse_lines(p, lines) ==
    IF p.raised # "" \/ lines = <<>> THEN p
    ELSE parse_lines(parse_chars(p, Head(lines) \o <<"\n", EOL>>, 1), Tail(lines))

\* csv.reader(lines) with the default dialect, read to its end: the rows,
\* and the exception the reader raised if it did
csv_reader(lines) ==
    LET p == parse_lines(Reader("START_RECORD", <<>>, <<>>, <<>>, ""), lines)
    IN  [rows |-> IF p.raised = "" /\ (p.field # <<>> \/ p.state = "IN_QUOTED_FIELD")
                  THEN Append(p.rows, Append(p.row, p.field)) ELSE p.rows,
         raised |-> p.raised]

\* line for line in f if line.strip() and not line.lstrip().startswith("#")
data_lines(lines) ==
    SelectSeq(lines, LAMBDA line :
        /\ strip(line \o <<"\n">>) # <<>>
        /\ Head(lstrip(line \o <<"\n">>)) # "#")

RECURSIVE Pow10(_)
Pow10(k) == IF k = 0 THEN 1 ELSE 10 * Pow10(k - 1)

\* float(s) of a decimal numeral: None for ValueError
float(s) ==
    LET t == strip(s)
        signed == t # <<>> /\ Head(t) \in {"-", "+"}
        body == IF signed THEN Tail(t) ELSE t
        dots == {i \in DOMAIN body : body[i] = "."}
        dot == IF dots = {} THEN Len(body) + 1 ELSE CHOOSE i \in dots : TRUE
        whole == SubSeq(body, 1, dot - 1)
        frac == SubSeq(body, dot + 1, Len(body))
        digits == whole \o frac
    IN  IF \/ Cardinality(dots) > 1
           \/ digits = <<>>
           \/ \E i \in DOMAIN digits : digits[i] \notin Range(DecimalChars)
        THEN None
        ELSE Some(Rat((IF signed /\ Head(t) = "-" THEN 0 - 1 ELSE 1) * digits_value(digits),
                      Pow10(Len(frac))))

\* what one write() of process_file puts into the output file
OutLine(kind, lineno, parts, values, e) ==
    [kind |-> kind, lineno |-> lineno, parts |-> parts, values |-> values, e |-> e]

\* "# task,input_value,input_unit,output_value,output_unit\n"
Header == OutLine("header", 0, <<>>, <<>>, "")

\* f"{task},{val},{in_unit},{out_val},{out_unit}" + "\n"
Converted(task, val, in_unit, out_val, out_unit) ==
    OutLine("converted", 0, <<task, in_unit, out_unit>>, <<val, out_val>>, "")

\* f"ERROR,line {lineno},{','.join(parts)},{e}" + "\n"
Error(lineno, parts, e) == OutLine("ERROR", lineno, parts, <<>>, e)

\* the body of the loop of process_file: what it appends to results
result_for(lineno, parts) ==
    IF Len(parts) < 4 THEN Error(lineno, parts, "ValueError")
    ELSE LET task == strip(parts[1])
             val == float(strip(parts[2]))
             in_unit == strip(parts[3])
             out_unit == strip(parts[4])
         IN  IF val = None THEN Error(lineno, parts, "ValueError")
             ELSE LET out_val == convert(task, val[1], in_unit, out_unit)
                  IN  IF out_val.raised # "" THEN Error(lineno, parts, out_val.raised)
                      ELSE Converted(task, val[1], in_unit, out_val.value[1], out_unit)

\* write_text: the files with the file at path created or replaced
write(d, path, text) ==
    [p \in DOMAIN d \cup {path} |-> IF p = path THEN text ELSE d[p]]

\* a caller about to call process_file
ProcessFileArgs(path) == [op |-> "call", path |-> path, ret |-> NotCalled]

\* process_file(path)
ProcessFile ==
    /\ pf_ret.op = "call"
    /\ LET path == pf_ret.path
           out_path == _output_path_for(path)
       IN  IF path \notin DOMAIN disk
           THEN /\ pf_ret' = [pf_ret EXCEPT !.op = "process_file",
                                            !.ret = Raised("FileNotFoundError")]
                /\ disk' = disk
           ELSE LET reader == csv_reader(data_lines(disk[path]))
                    results == [i \in DOMAIN reader.rows |-> result_for(i, reader.rows[i])]
                IN  IF reader.raised # ""
                    THEN /\ pf_ret' = [pf_ret EXCEPT !.op = "process_file",
                                                     !.ret = Raised(reader.raised)]
                         /\ disk' = disk
                    ELSE /\ disk' = write(disk, out_path, <<Header>> \o results)
                         /\ pf_ret' = [pf_ret EXCEPT !.op = "process_file",
                                                     !.ret = Returned(out_path)]
    /\ UNCHANGED conv
    /\ UNCHANGED not_converter

\* An input file has at most MaxLines lines.
MaxLines == 3

\* the lines of the input files: well-formed and malformed records, a
\* comment, a blank line, and lines in which a quoted field opens
SampleLines ==
    {<<"t", ",", "3", "2", ",", "F", ",", "c">>,
     <<"L", ",", "1", ",", "i", "n", ",", "c", "m">>,
     <<"t", ",", "1", ",", "f">>,
     <<"t", ",", "x", ",", "f", ",", "c">>,
     <<"t", ",", "1", ",", "c", "m", ",", "c">>,
     <<" ", "#", "c">>,
     <<" ">>,
     <<"t", ",", "\"", "1", "\"", ",", "f", ",", "k">>,
     <<"t", ",", "\"", "3", "2", ",", "f", ",", "c">>}

RECURSIVE TextFiles(_)
TextFiles(n) ==
    IF n = 0 THEN {<<>>}
    ELSE TextFiles(n - 1) \cup
         {Append(text, line) : text \in {t \in TextFiles(n - 1) : Len(t) = n - 1},
                               line \in SampleLines}

\* the paths a caller passes: with and without an extension
PathNames == {<<"i", "n">>, <<"i", "n", ".", "t">>}

InitFile ==
    /\ GameAtRest
    /\ CacheAtRest
    /\ StatsAtRest
    /\ ClientAtRest
    /\ AppAtRest
    /\ conv = NotCalled
    /\ \E path \in PathNames :
           /\ pf_ret = ProcessFileArgs(path)
           /\ \/ disk = <<>>
              \/ \E text \in TextFiles(MaxLines) : disk = write(<<>>, path, text)

NextFile == ProcessFile

SpecFile == InitFile /\ [][NextFile]_vars

(***************************************************************************)
(* Claims about process_file.                                              *)
(***************************************************************************)
\* the lines of a text that are neither blank nor a comment
DataLines(text) ==
    SelectSeq(text, LAMBDA line :
        \E i \in DOMAIN line :
            /\ ~IsSpaceChar(line[i])
            /\ \A j \in 1 .. i - 1 : IsSpaceChar(line[j])
            /\ line[i] # "#")

\* what was written is one line of text: no part of it holds a line end
IsOneLine(written) ==
    \A i \in DOMAIN written.parts : "\n" \notin Range(written.parts[i])

\* C26 (SpecFile): process_file of an existing file returns the path of
\* the output file, to which it wrote the header line and then exactly one
\* line for each input line that is neither blank nor a comment, each a
\* converted record or an ERROR record, whatever lines came before; the
\* input file is as it was.
C26_OneLinePerInputLine ==
    [][(pf_ret.op = "call" /\ pf_ret.path \in DOMAIN disk) =>
          LET path == pf_ret.path
              data == DataLines(disk[path])
              out_path == pf_ret'.ret.value[1]
              out == disk'[out_path]
          IN  /\ pf_ret'.ret.raised = ""
              /\ out_path # path
              /\ out_path \in DOMAIN disk'
              /\ disk'[path] = disk[path]
              /\ Len(out) = 1 + Len(data)
              /\ out[1] = Header
              /\ \A i \in 2 .. Len(out) :
                     out[i].kind \in {"converted", "ERROR"} /\ IsOneLine(out[i])]_vars

(***************************************************************************)
(* day04/app.py: GeneTracker.  Streamlit runs GeneTracker.run() once for   *)
(* every interaction of the user, with at most one button clicked in a     *)
(* run; st.rerun() ends the run and starts another one in which no button  *)
(* is clicked.  One action is one such interaction with the runs it        *)
(* causes.  gene_history is a dict: the sequence of its (gene, gene_data)  *)
(* pairs.  The calls a run makes on its DataProcessor and its PubMedClient *)
(* are written to app_log, which is empty after a run without a search;    *)
(* cret, saved and dropped, which record the calls of SpecCache, stay as   *)
(* they are.  The directory of the cache is the one of the DataProcessor   *)
(* above, and Entrez answers every search as it likes.                     *)
(***************************************************************************)
\* Config.YEARS_BACK is 20; the model looks back at most MaxYearsBack years.
MaxYearsBack == 1

YEARS_BACK == Min(20, MaxYearsBack)

\* datetime.now().year
current_year == FirstYear + YEARS_BACK

\* a call made in a run and what it returned; for process_gene_search
\* itself, value is selected_genes as it was at the call
Event(op, gene, arg, value) == [op |-> op, gene |-> gene, arg |-> arg, value |-> value]

\* client.get_yearly_counts(gene, start_year, end_year, progress_callback)
\* when Entrez answers the search of the i-th year with resps[i]
RECURSIVE get_yearly_counts(_, _, _, _)
get_yearly_counts(gene, start_year, end_year, resps) ==
    IF end_year < start_year THEN <<>>
    ELSE dict_set(
            get_yearly_counts(gene, start_year, end_year - 1, resps),
            end_year,
            search_gene_publications(gene, Some(end_year),
                                     resps[end_year - start_year + 1]).value)

\* the searches of that call, in order
searches(gene, start_year, end_year) ==
    [i \in 1 .. end_year - start_year + 1 |->
        Event("search_gene_publications", gene, Some(start_year + i - 1), None)]

\* {int(year): count for year, count in cached_data["yearly_counts"].items()}:
\* the keys of the JSON object come in the order they were saved in, which
\* is the ascending order get_yearly_counts filled the dict in
int_keys(d) ==
    LET ks == glob(DOMAIN d)
        years == sorted_int([i \in DOMAIN ks |-> int_of_str(ks[i])[1]])
    IN  [i \in DOMAIN years |-> <<years[i], d[IntToStr(years[i])]>>]

\* the dict yearly_counts as save_to_cache takes it
as_mapping(yearly_counts) ==
    [y \in Range(keys(yearly_counts)) |-> item(yearly_counts, y)]

\* the files of cache_dir after processor.save_to_cache(gene, yearly_counts)
save_to_cache(gene, yearly_counts) ==
    IF dir_exists
    THEN WriteFile(files, get_cache_path(gene), JsonFile(
             [gene |-> gene,
              cached_at |-> isoformat(now),
              yearly_counts |-> StrKeys(as_mapping(yearly_counts)),
              metadata |-> EmptyDict]))
    ELSE files

\* what a call of process_gene_search leaves behind: the session state, the
\* files of the cache and the calls it made
Left(data, hist, selected, fs, log) ==
    [gene_data |-> data, gene_history |-> hist, selected_genes |-> selected,
     files |-> fs, log |-> log]

\* lines 120-143 of process_gene_search: process, store, auto-select
store_results(gene, yearly_counts, selected, fs, log) ==
    LET stats_ == process_yearly_data(yearly_counts)
    IN  IF "trend_change_percent" \notin DOMAIN stats_
        THEN Left(None, gene_history, selected, fs, log)
        ELSE LET data == [gene |-> gene,
                          yearly_counts |-> yearly_counts,
                          stats |-> stats_,
                          trend_status |->
                              determine_trend_status(stats_.trend_change_percent)]
             IN  Left(Some(data),
                      dict_set(gene_history, gene, data),
                      IF gene \in Range(selected) THEN selected ELSE Append(selected, gene),
                      fs, log)

\* a process_gene_search that asks PubMed even when the cache has the gene
process_gene_search_ignoring_cache(selected, gene_arg, use_cache, cache_days, validation, fetch) ==
    LET gene == strip(gene_arg)
        cached_data == IF use_cache THEN load_from_cache(gene, cache_days) ELSE None
        called == <<Event("process_gene_search", gene_arg, <<use_cache, cache_days>>,
                          selected)>>
        loaded == called \o
                  (IF use_cache
                   THEN <<Event("load_from_cache", gene, cache_days, cached_data)>>
                   ELSE <<>>)
        valid == search_gene_publications(gene, None, validation).value > 0
        validated == loaded \o <<Event("validate_gene_exists", gene, None, valid)>>
        yearly_counts ==
            get_yearly_counts(gene, current_year - YEARS_BACK, current_year, fetch)
    IN  IF gene = <<>> THEN Left(gene_data, gene_history, selected, files, called)
        ELSE IF ~valid THEN Left(gene_data, gene_history, selected, files, validated)
        ELSE store_results(gene, yearly_counts, selected,
                 save_to_cache(gene, yearly_counts),
                 validated \o searches(gene, current_year - YEARS_BACK, current_year)
                     \o <<Event("save_to_cache", gene, yearly_counts, None)>>)

\* process_gene_search(gene, use_cache, cache_days) when selected_genes is
\* selected, Entrez answers validation to the search of validate_gene_exists
\* and fetch[i] to the search of the i-th year
process_gene_search(selected, gene_arg, use_cache, cache_days, validation, fetch) ==
    LET gene == strip(gene_arg)
        cached_data == IF use_cache THEN load_from_cache(gene, cache_days) ELSE None
        called == <<Event("process_gene_search", gene_arg, <<use_cache, cache_days>>,
                          selected)>>
        loaded == called \o
                  (IF use_cache
                   THEN <<Event("load_from_cache", gene, cache_days, cached_data)>>
                   ELSE <<>>)
        valid == search_gene_publications(gene, None, validation).value > 0
        validated == loaded \o <<Event("validate_gene_exists", gene, None, valid)>>
        yearly_counts ==
            get_yearly_counts(gene, current_year - YEARS_BACK, current_year, fetch)
    IN  IF gene = <<>> THEN Left(gene_data, gene_history, selected, files, called)
        ELSE IF cached_data # None /\ cached_data[1] # EmptyDict
        THEN IF "yearly_counts" \notin DOMAIN cached_data[1]
             THEN Left(None, gene_history, selected, files, loaded)
             ELSE store_results(gene, int_keys(cached_data[1].yearly_counts),
                                selected, files, loaded)
        ELSE IF ~valid THEN Left(gene_data, gene_history, selected, files, validated)
        ELSE store_results(gene, yearly_counts, selected,
                 save_to_cache(gene, yearly_counts),
                 validated \o searches(gene, current_year - YEARS_BACK, current_year)
                     \o <<Event("save_to_cache", gene, yearly_counts, None)>>)

\* GeneTracker.process_gene_search(gene, use_cache, cache_days)
ProcessGeneSearch(selected, gene, use_cache, cache_days, validation, fetch) ==
    \E left \in {process_gene_search(selected, gene, use_cache, cache_days,
                                      validation, fetch)} :
        /\ gene_data' = left.gene_data
        /\ gene_history' = left.gene_history
        /\ selected_genes' = left.selected_genes
        /\ app_log' = left.log
        /\ files' = left.files
        /\ UNCHANGED <<dir_exists, now, cret, saved, dropped>>
        /\ UNCHANGED not_app

\* the lists st.multiselect may return: the options the user has selected,
\* each once, in the order of selection
Selections(options) ==
    UNION {{s \in [1 .. n -> Range(options)] : \A i, j \in 1 .. n : i # j => s[i] # s[j]} :
              n \in 0 .. Len(options)}

\* st.multiselect(options, default) in a run in which the user has not
\* touched it: what it returned in the run before, which is selected_genes,
\* unless that is empty or process_gene_search has added a gene to it, and
\* then the widget is a new one that returns its default
multiselect(options, default) == default

\* render_comparison_section(gene_history, selected_genes, on_clear_history)
\* when the clear history button is not clicked
render_comparison_section ==
    IF gene_history = <<>> THEN <<>>
    ELSE multiselect(keys(gene_history),
                     IF selected_genes # <<>> THEN selected_genes
                     ELSE last(keys(gene_history), 1))

\* a run in which no button is clicked and the user's selection in the
\* multiselect is sel
Run(sel) ==
    /\ gene_history # <<>>
    /\ sel \in Selections(keys(gene_history))
    /\ selected_genes' = sel
    /\ app_log' = <<>>
    /\ UNCHANGED <<gene_data, current_gene, gene_history>>
    /\ UNCHANGED cache_vars
    /\ UNCHANGED not_app

\* a run in which an example button is clicked: handle_example_click(gene),
\* and the run st.rerun() starts
RunExample(gene) ==
    /\ current_gene' = Some(gene)
    /\ selected_genes' = render_comparison_section
    /\ app_log' = <<>>
    /\ UNCHANGED <<gene_data, gene_history>>
    /\ UNCHANGED cache_vars
    /\ UNCHANGED not_app

\* a run in which the clear cache button is clicked: handle_clear_cache()
RunClearCache ==
    /\ IF dir_exists
       THEN files' = <<>> /\ dir_exists' = TRUE
       ELSE UNCHANGED <<files, dir_exists>>
    /\ gene_data' = None
    /\ selected_genes' = render_comparison_section
    /\ app_log' = <<Event("clear_cache", None, None, None)>>
    /\ UNCHANGED <<now, cret, saved, dropped, current_gene, gene_history>>
    /\ UNCHANGED not_app

\* a run in which the clear history button is clicked:
\* handle_clear_history(), and the run st.rerun() starts, in which
\* render_comparison_section returns []
RunClearHistory ==
    /\ gene_history # <<>>
    /\ gene_history' = <<>>
    /\ selected_genes' = <<>>
    /\ app_log' = <<>>
    /\ UNCHANGED <<gene_data, current_gene>>
    /\ UNCHANGED cache_vars
    /\ UNCHANGED not_app

\* a run in which the track button is clicked with gene_input typed; the
\* button is disabled while gene_input is blank
RunTrack(gene_input, use_cache, cache_days, validation, fetch) ==
    /\ strip(gene_input) # <<>>
    /\ current_gene' = Some(gene_input)
    /\ ProcessGeneSearch(render_comparison_section, gene_input,
                         use_cache, cache_days, validation, fetch)

\* what the user types: two genes, one with a blank before it, and a blank
GeneInputs == {<<"A">>, <<" ", "B">>, <<" ">>}

\* UIConfig.EXAMPLE_GENES, cut to one gene
ExampleGenes == {<<"A">>}

\* the slider of render_sidebar, at its default
CacheDays == {30}

\* what Entrez does in the searches of a fetch: it fails every time, or it
\* finds some publications every time
FetchResponses ==
    {[i \in 1 .. YEARS_BACK + 1 |-> resp] :
        resp \in {Response("ok", "raises", "ok", None),
                  Response("ok", "ok", "ok", Some(<<"1", "2">>))}}

\* GeneTracker() in a new session, on an empty cache directory
InitApp ==
    /\ GameAtRest
    /\ StatsAtRest
    /\ ClientAtRest
    /\ ConverterAtRest
    /\ NewProcessors
    /\ now = 0
    /\ cret = NotCalled
    /\ saved = {}
    /\ dropped = None
    /\ gene_data = None
    /\ current_gene = None
    /\ gene_history = <<>>
    /\ selected_genes = <<>>
    /\ app_log = <<>>

PlainRun == \E sel \in Selections(keys(gene_history)) : Run(sel)

ClickExample == \E gene \in ExampleGenes : RunExample(gene)

ClickClearCache == RunClearCache

ClickClearHistory == RunClearHistory

ClickTrack ==
    \E gene_input \in GeneInputs, use_cache \in BOOLEAN, cache_days \in CacheDays,
       validation \in LoopResponses, fetch \in FetchResponses :
        RunTrack(gene_input, use_cache, cache_days, validation, fetch)

\* process_gene_search called with a blank gene, which run never does
CallProcessGeneSearch ==
    \E gene \in {g \in GeneInputs : strip(g) = <<>>},
       use_cache \in BOOLEAN, cache_days \in CacheDays,
       validation \in LoopResponses, fetch \in FetchResponses :
        /\ ProcessGeneSearch(selected_genes, gene, use_cache, cache_days, validation, fetch)
        /\ UNCHANGED current_gene

NextApp ==
    \/ PlainRun
    \/ ClickExample
    \/ ClickClearCache
    \/ ClickClearHistory
    \/ ClickTrack
    \/ CallProcessGeneSearch

SpecApp == InitApp /\ [][NextApp]_vars

(***************************************************************************)
(* Claims about GeneTracker.                                               *)
(***************************************************************************)
\* where the calls of op stand in a log
CallsOf(log, op) == {i \in DOMAIN log : log[i].op = op}

\* C28 (SpecApp): in a call of process_gene_search, when load_from_cache
\* returned a record, PubMed is not asked and the cache is not written;
\* otherwise, for a gene that is not blank, validate_gene_exists is called
\* before any search of the fetch and before save_to_cache, the years are
\* searched only when it returned true, and then save_to_cache is called
\* once, after the last search.  When the gene is blank or validation
\* failed, nothing is searched or saved and gene_data, gene_history,
\* selected_genes and the cache are as they were at the call.
C28_CacheThenValidateThenFetch ==
    [][(app_log' # <<>> /\ app_log'[1].op = "process_gene_search") =>
          LET log == app_log'
              gene == strip(log[1].gene)
              loads == CallsOf(log, "load_from_cache")
              validates == CallsOf(log, "validate_gene_exists")
              fetches == CallsOf(log, "search_gene_publications")
              saves == CallsOf(log, "save_to_cache")
              hit == \E i \in loads : log[i].value # None
              failed == \E v \in validates : ~log[v].value
          IN  /\ loads # {} => log[1].arg[1]
              /\ hit => validates = {} /\ fetches = {} /\ saves = {} /\ files' = files
              /\ (~hit /\ gene # <<>>) =>
                     /\ Cardinality(validates) = 1
                     /\ \A v \in validates, i \in fetches \cup saves : v < i /\ log[v].value
                     /\ ~failed => /\ Cardinality(fetches) = YEARS_BACK + 1
                                   /\ Cardinality(saves) = 1
                                   /\ \A i \in fetches, s \in saves : i < s
                                   /\ get_cache_path(gene) \in DOMAIN files'
              /\ (gene = <<>> \/ failed) =>
                     /\ fetches = {} /\ saves = {}
                     /\ files' = files
                     /\ gene_data' = gene_data
                     /\ gene_history' = gene_history
                     /\ selected_genes' = log[1].value]_vars

\* a search of " B" with the cache in use missed the cache, validated the
\* gene, searched every year and then saved the counts
C28_Witness ==
    /\ Len(app_log) = YEARS_BACK + 5
    /\ app_log[1].op = "process_gene_search"
    /\ app_log[1].gene = <<" ", "B">>
    /\ app_log[2].op = "load_from_cache"
    /\ app_log[2].value = None
    /\ app_log[3].op = "validate_gene_exists"
    /\ app_log[3].value
    /\ app_log[Len(app_log)].op = "save_to_cache"
    /\ app_log[Len(app_log)].gene = <<"B">>
    /\ get_cache_path(<<"B">>) \in DOMAIN files

\* C29 (SpecApp): after every run, selected_genes holds no gene twice and
\* only keys of gene_history, and when gene_data is not None, its gene is a
\* key of gene_history and the entry of that key is gene_data.
C29_SessionStateIsConsistent ==
    /\ \A i, j \in DOMAIN selected_genes : i # j => selected_genes[i] # selected_genes[j]
    /\ Range(selected_genes) \subseteq Range(keys(gene_history))
    /\ gene_data # None =>
           \E i \in DOMAIN gene_history :
               /\ gene_history[i][1] = gene_data[1].gene
               /\ gene_history[i][2] = gene_data[1]

====
